---- MODULE Spec2Model ----
(***************************************************************************)
(* RiskGuard risk enforcement engine: the drawdown kill switch             *)
(* (limits/dd_kill.py), the logical kill switch it arms                    *)
(* (limits/kill_switch.py), the aggregate risk limiter (limits/limits.py)  *)
(* the position closer (limits/guard.py, limits/uia.py) and the per-trade  *)
(* enforcement in immediate mode (limits/guard.py, main.py) and in          *)
(* interactive mode (limits/per_trade_interactive.py).                      *)
(*                                                                         *)
(* Time is counted in whole days.  One call of an operation is one step;   *)
(* the clock readings a call makes all return the same day.  Amounts       *)
(* (equity, peak) are whole currency units, percentages are whole numbers, *)
(* and the drawdown comparison is done by cross-multiplication, so no      *)
(* rounding enters: on these values the 1e-9 tolerance of the source never *)
(* changes the outcome of a comparison.  Per-trade risk percentages are    *)
(* counted in hundredths of a percent and prices in whole points; the      *)
(* interactive mode's clock counts seconds.                                 *)
(***************************************************************************)
EXTENDS Integers, FiniteSets, Sequences, TLC

\* ------------------------------------------------------------------ bounds
MaxTime == 3          \* the clock stops here
MaxTicket == 2        \* tickets are 1..MaxTicket
MaxLogin == 2         \* account logins are 1..MaxLogin
CooldownDays == 2     \* the cooldown_days argument of enforce_drawdown
MaxAggTicket == 3     \* the aggregate limiter sees tickets 1..MaxAggTicket
MaxAttemptsSeen == 4  \* cap on the aggregate limiter's attempts counter
MaxPtTicket == 2      \* per-trade enforcement sees tickets 1..MaxPtTicket
MaxPtiTime == 3       \* interactive ticks in one run, one a second
MaxInbox == 2         \* chat messages sent to the bot in one run
PtiTimeout == 1       \* timeout_minutes * 60 of the interactive mode, in seconds

\* ------------------------------------------------------- program constants
DEFAULT_DD_LIMIT_PCT == 20      \* dd_kill.py: DEFAULT_DD_LIMIT_PCT
RearmDays == 1                  \* dd_kill.py: timedelta(hours=24)
MinPinLen == 4                  \* dd_kill.py: set_2fa_pin, len(pin) < 4
DEFAULT_THRESHOLD_PCT == 5      \* limits.py: DEFAULT_THRESHOLD_PCT
DEFAULT_MAX_ATTEMPTS == 3       \* limits.py: DEFAULT_MAX_ATTEMPTS
DEFAULT_MAX_RISK_PCT == 100     \* guard.py: DEFAULT_MAX_RISK_PCT (1.0 %)

None == -1                      \* Python's None / a missing key
NoHash == ""                    \* no "twofa_sha256" key
NoPin == ""                     \* no secret configured

Tickets == 1..MaxTicket
Logins == 1..MaxLogin
Equities == {0, 790, 800, 1000}
Pins == {"1234", "0000", "12"}    \* pins tried at unlock
NewPins == {"1234", "12"}         \* pins given to set_2fa_pin
AggTickets == 1..MaxAggTicket
RiskPcts == {0, 5, 7}             \* total_risk_pct of a snapshot with positions

Max(a, b) == IF a >= b THEN a ELSE b

VARIABLES
    now,        \* the clock (days)
    op,         \* the operation the last step performed
    ddSt,       \* .riskguard_dd.json
    killUntil,  \* .riskguard_state.json: autotrade_disabled_until
    \* What the last step's call read and returned (blank when the last step
    \* was another operation):
    ddSnap,     \* the snapshot an enforce_drawdown call read
    ddRep,      \* the report it returned
    ddCalls,    \* the tickets it called close_position_full for
    pinIn,      \* the pin given to a set_2fa_pin / unlock_with_pin call
    pinRep,     \* what that call returned ("ok", "invalid", "raised")
    cfgPin,     \* the secret last accepted by set_2fa_pin (NoPin: none)
    ddSince,    \* "unlocked": an unlock was accepted and enforce_drawdown has not run since;
                \* "first": the last step was the first enforce_drawdown call after one
    aggSt,      \* .riskguard_limits.json
    aggSnap,    \* the snapshot the last enforce_aggregate_risk call read
    aggRep,     \* the report of the last enforce_aggregate_risk call
    aggCalls,   \* tickets close_position_full was called for in that call
    aggSeen,    \* distinct tickets found outside the baseline since attempts was last reset
    aggGone,    \* tickets that were open once and are no longer
    cl,         \* the running close_position_full / modify_position_sltp call
    atSwitch,   \* the terminal's AutoTrading switch (TRUE: on)
    ptSnap,     \* the snapshot the last immediate per-trade pass read
    ptRep,      \* the report of that pass
    ptCalls,    \* tickets close_position_full was called for in that pass
    ptGone,     \* tickets that were open once and are no longer
    ptBreach,   \* .guard_breach_cache.json: tickets_reported
    ptBlk,      \* what _block_active() returned to the last pass
    ptiNow,     \* time.time() at the last interactive tick (seconds), 0 before the first
    ptiState,   \* .rg_pertrade_interactive.json
    ptiInbox,   \* the chat's updates the server still holds
    ptiSent,    \* how many updates the chat has had
    ptiSnap,    \* the snapshot the last interactive tick was given
    ptiRep,     \* the report of that tick
    ptiCalls,   \* the modify_position_sltp calls of that tick, in order
    ptiPrompts, \* tickets that tick sent the option prompt for
    ddLock,     \* the holder of the lock on .riskguard_dd.lock ("none": free)
    rwMain,     \* the main loop's enforce_drawdown call between _load() and _save()
    rwCli,      \* the CLI's set_2fa_pin / unlock_with_pin call between _load() and _save()
    aggDisk,    \* the bytes of .riskguard_limits.json: "complete" or "partial"
    aggWr,      \* the enforce_aggregate_risk call inside _save_state()
    aggRead     \* what the last risk_block_status() call of another process returned

ddData == <<now, ddSt, killUntil, ddSnap, ddRep, ddCalls, pinIn, pinRep, cfgPin, ddSince>>
aggVars == <<aggSt, aggSnap, aggRep, aggCalls, aggSeen, aggGone>>
closeVars == <<cl, atSwitch>>
ptVars == <<ptSnap, ptRep, ptCalls, ptGone, ptBreach, ptBlk>>
ptiVars == <<ptiNow, ptiState, ptiInbox, ptiSent, ptiSnap, ptiRep, ptiCalls, ptiPrompts>>
fileVars == <<ddLock, rwMain, rwCli, aggDisk, aggWr, aggRead>>
vars == <<now, op, ddSt, killUntil, ddSnap, ddRep, ddCalls, pinIn, pinRep, cfgPin, ddSince,
          aggSt, aggSnap, aggRep, aggCalls, aggSeen, aggGone, cl, atSwitch,
          ptSnap, ptRep, ptCalls, ptGone, ptBreach, ptBlk,
          ptiNow, ptiState, ptiInbox, ptiSent, ptiSnap, ptiRep, ptiCalls, ptiPrompts,
          ddLock, rwMain, rwCli, aggDisk, aggWr, aggRead>>

\* ---------------------------------------------------------------- closing
\* The tickets of a snapshot in the order the snapshot lists them.
RECURSIVE SeqOfSet(_)
SeqOfSet(S) ==
    IF S = {} THEN <<>>
    ELSE LET m == CHOOSE x \in S : \A y \in S : x <= y
         IN <<m>> \o SeqOfSet(S \ {m})

\* close_position_full never raises: an error inside it is returned as
\* (False, {"error": ...}).  okSet is the set of tickets the venue closes.
\* The loop of enforce_drawdown: every position gets its call, and lands in
\* closed or in failed.
RECURSIVE CloseLoop(_, _, _)
CloseLoop(todo, okSet, acc) ==
    IF todo = <<>> THEN acc
    ELSE LET t == Head(todo)
             next == [calls  |-> acc.calls \cup {t},
                      closed |-> IF t \in okSet THEN acc.closed \cup {t} ELSE acc.closed,
                      failed |-> IF t \in okSet THEN acc.failed ELSE acc.failed \cup {t}]
         IN CloseLoop(Tail(todo), okSet, next)

NoCloses == [calls |-> {}, closed |-> {}, failed |-> {}]

\* ------------------------------------------------------------ kill switch
KillActiveAtZero(until, t) == until # None /\ until - t >= 0

\* kill_status()["active"]
KillActive(until, t) == until # None /\ until - t > 0

\* ---------------------------------------------------------- drawdown kill
sha(pin) == "sha256:" \o pin

DdEmpty == [login |-> None, tracking |-> FALSE, peak |-> None,
            awaiting |-> FALSE, cooldown |-> None, twofa |-> NoHash]

DdRepNone == [equity |-> 0, peak_equity |-> 0, closed |-> {}, failed |-> {},
              cooldown_until |-> None, in_cooldown |-> FALSE,
              awaiting_unlock |-> FALSE, tripped |-> FALSE, tripped_now |-> FALSE,
              tracking_initialized |-> FALSE]

SnapNone == [login |-> None, equity |-> 0, positions |-> {}]

\* dd_kill.py line 221
NeedsInit(st, login) == st.login # login \/ ~st.tracking

\* dd_kill.py lines 222-231
ReInit(st, login, equity) ==
    [login |-> login, tracking |-> TRUE, peak |-> equity,
     awaiting |-> FALSE, cooldown |-> None, twofa |-> st.twofa]

\* dd_kill.py lines 241-246
InCooldown(cu, t) == cu # None /\ t < cu

\* dd_kill.py lines 248-249
CooldownExpired(cu, t) == cu # None /\ t >= cu

NewPeakAlways(in_cooldown, peak, equity) ==
    IF equity > peak THEN equity ELSE peak

\* dd_kill.py lines 255-256
NewPeak(in_cooldown, peak, equity) ==
    IF ~in_cooldown /\ equity > peak THEN equity ELSE peak

TripReachedStrict(peak, equity, limit) ==
    IF peak <= 0 THEN 0 > limit
    ELSE Max(0, (peak - equity) * 100) > limit * peak

\* dd_kill.py lines 258 and 279: dd_pct >= dd_limit_pct
TripReached(peak, equity, limit) ==
    IF peak <= 0 THEN 0 >= limit
    ELSE Max(0, (peak - equity) * 100) >= limit * peak

TripNowInCooldown(tripped, in_cooldown, awaiting_unlock) ==
    tripped /\ ~awaiting_unlock

\* dd_kill.py lines 279 and 282
TripNow(tripped, in_cooldown, awaiting_unlock) ==
    tripped /\ ~in_cooldown /\ ~awaiting_unlock

PinOkUnconfigured(want, pin) == want = NoHash \/ sha(pin) = want
PinOkAnyPin(want, pin) == want # NoHash

\* dd_kill.py line 130
PinOk(want, pin) == want # NoHash /\ sha(pin) = want

\* One call of enforce_drawdown on the persisted state st and kill-switch
\* horizon kill, at time t, for the snapshot (login, equity, positions); okSet
\* is the set of tickets whose close the venue accepts.
DdCall(st, kill, t, login, equity, positions, okSet, dd_limit_pct, cooldown_days) ==
    LET init == NeedsInit(st, login)
        st1 == IF init THEN ReInit(st, login, equity) ELSE st
        peak0 == IF st1.peak <= 0 THEN equity ELSE st1.peak
        in_cooldown == InCooldown(st1.cooldown, t)
        cooldown_iso == IF CooldownExpired(st1.cooldown, t) THEN None ELSE st1.cooldown
        peak == NewPeak(in_cooldown, peak0, equity)
        awaiting_unlock == st1.awaiting
        tripped == TripReached(peak, equity, dd_limit_pct)
        trip_now == TripNow(tripped, in_cooldown, awaiting_unlock)
        keep_kill == awaiting_unlock /\ ~in_cooldown
        until == t + cooldown_days
        res == IF trip_now THEN CloseLoop(SeqOfSet(positions), okSet, NoCloses)
               ELSE NoCloses
        cu_after == IF trip_now THEN until
                    ELSE IF tripped THEN cooldown_iso
                    ELSE IF keep_kill THEN None
                    ELSE IF CooldownExpired(cooldown_iso, t) THEN None
                    ELSE cooldown_iso
    IN [st   |-> [st1 EXCEPT !.peak = peak,
                             !.awaiting = IF trip_now THEN TRUE ELSE @,
                             !.cooldown = cu_after],
        kill |-> IF trip_now THEN until
                 ELSE IF keep_kill /\ ~KillActive(kill, t) THEN t + RearmDays
                 ELSE kill,
        rep  |-> [equity |-> equity, peak_equity |-> peak,
                  closed |-> res.closed, failed |-> res.failed,
                  cooldown_until |-> cu_after,
                  in_cooldown |-> in_cooldown,
                  awaiting_unlock |-> awaiting_unlock,
                  tripped |-> tripped, tripped_now |-> trip_now,
                  tracking_initialized |-> init],
        calls |-> res.calls]

\* The venue's answers (okSet) are drawn only for a call that closes: whether
\* it does is decided before the close loop and does not depend on the
\* positions.
enforce_drawdown(dd_limit_pct, cooldown_days) ==
    \E login \in Logins, equity \in Equities :
      \E closes \in {DdCall(ddSt, killUntil, now, login, equity, {}, {},
                            dd_limit_pct, cooldown_days).rep.tripped_now} :
        \E positions \in SUBSET Tickets :
          \E okSet \in SUBSET (IF closes THEN positions ELSE {}) :
            \E r \in {DdCall(ddSt, killUntil, now, login, equity, positions, okSet,
                              dd_limit_pct, cooldown_days)} :
               /\ ddSt' = r.st
               /\ killUntil' = r.kill
               /\ ddRep' = r.rep
               /\ ddCalls' = r.calls
               /\ ddSnap' = [login |-> login, equity |-> equity, positions |-> positions]
               /\ op' = "enforce_drawdown"
               /\ pinIn' = NoPin
               /\ pinRep' = "none"
               /\ ddSince' = IF ddSince = "unlocked" THEN "first" ELSE "none"
               /\ UNCHANGED <<now, cfgPin>>
               /\ UNCHANGED <<aggVars, closeVars, ptVars, ptiVars, fileVars>>

EnforceDrawdown == enforce_drawdown(DEFAULT_DD_LIMIT_PCT, CooldownDays)

set_2fa_pin ==
    \E pin \in NewPins :
      /\ pinIn' = pin
      /\ op' = "set_2fa_pin"
      /\ IF Len(pin) < MinPinLen
         THEN /\ pinRep' = "raised"
              /\ UNCHANGED <<ddSt, cfgPin>>
         ELSE /\ pinRep' = "ok"
              /\ ddSt' = [ddSt EXCEPT !.twofa = sha(pin)]
              /\ cfgPin' = pin
      /\ ddSnap' = SnapNone
      /\ ddRep' = DdRepNone
      /\ ddCalls' = {}
      /\ ddSince' = IF ddSince = "first" THEN "none" ELSE ddSince
      /\ UNCHANGED <<now, killUntil>>
      /\ UNCHANGED <<aggVars, closeVars, ptVars, ptiVars, fileVars>>

unlock_with_pin ==
    \E pin \in Pins :
      /\ pinIn' = pin
      /\ op' = "unlock_with_pin"
      /\ IF ~PinOk(ddSt.twofa, pin)
         THEN /\ pinRep' = "invalid"
              /\ ddSince' = IF ddSince = "first" THEN "none" ELSE ddSince
              /\ UNCHANGED ddSt
         ELSE /\ pinRep' = "ok"
              /\ ddSince' = "unlocked"
              /\ ddSt' = [ddSt EXCEPT !.awaiting = FALSE,
                                      !.cooldown = IF @ # None /\ now >= @ THEN None ELSE @]
      /\ ddSnap' = SnapNone
      /\ ddRep' = DdRepNone
      /\ ddCalls' = {}
      /\ UNCHANGED <<now, killUntil, cfgPin>>
      /\ UNCHANGED <<aggVars, closeVars, ptVars, ptiVars, fileVars>>

\* kill_switch.py maybe_reenable_autotrade, run by the news daemon: once the
\* horizon has lapsed and the terminal switch could be turned on again, the
\* horizon is cleared.
maybe_reenable_autotrade ==
    /\ op' = "maybe_reenable_autotrade"
    /\ \E toggled \in BOOLEAN :
         killUntil' = IF ~KillActive(killUntil, now) /\ killUntil # None /\ toggled
                      THEN None ELSE killUntil
    /\ ddSnap' = SnapNone
    /\ ddRep' = DdRepNone
    /\ ddCalls' = {}
    /\ pinIn' = NoPin
    /\ pinRep' = "none"
    /\ ddSince' = IF ddSince = "first" THEN "none" ELSE ddSince
    /\ UNCHANGED <<now, ddSt, cfgPin>>
    /\ UNCHANGED <<aggVars, closeVars, ptVars, ptiVars, fileVars>>

AdvanceTime ==
    /\ now < MaxTime
    /\ now' = now + 1
    /\ op' = "clock"
    /\ ddSnap' = SnapNone
    /\ ddRep' = DdRepNone
    /\ ddCalls' = {}
    /\ pinIn' = NoPin
    /\ pinRep' = "none"
    /\ ddSince' = IF ddSince = "first" THEN "none" ELSE ddSince
    /\ UNCHANGED <<ddSt, killUntil, cfgPin>>
    /\ UNCHANGED <<aggVars, closeVars, ptVars, ptiVars, fileVars>>

\* ----------------------------------------------------------- aggregate risk
AggEmpty == [present |-> FALSE, baseline |-> {}, attempts |-> 0, blocked |-> FALSE]
AggRepNone == [new_tickets_detected |-> {}, closed |-> {}, failed |-> {},
               attempts_before |-> 0, attempts_after |-> 0,
               risk_block_active_before |-> FALSE, risk_block_active_after |-> FALSE]
AggSnapNone == [total |-> 0, tickets |-> {}, fresh |-> FALSE]

FirstRunNever(baseline) == FALSE

\* limits.py line 79: "if not baseline"
FirstRun(baseline) == baseline = {}

AtOrBelowStrict(total, threshold_pct) == total < threshold_pct

\* limits.py line 90
AtOrBelow(total, threshold_pct) == total <= threshold_pct

BlockAfterExact(risk_block_active, attempts, max_block_attempts) ==
    attempts = max_block_attempts

\* limits.py lines 123-130
AttemptsAfter(attempts, new_tickets) == attempts + Cardinality(new_tickets)
BlockAfter(risk_block_active, attempts, max_block_attempts) ==
    IF attempts >= max_block_attempts THEN TRUE ELSE risk_block_active

RECURSIVE AggCloseLoopAborting(_, _, _, _)
AggCloseLoopAborting(todo, new_tickets, okSet, acc) ==
    IF todo = <<>> THEN acc
    ELSE LET t == Head(todo)
         IN IF t \notin new_tickets
            THEN AggCloseLoopAborting(Tail(todo), new_tickets, okSet, acc)
            ELSE IF t \in okSet
            THEN AggCloseLoopAborting(Tail(todo), new_tickets, okSet,
                                      [acc EXCEPT !.calls = @ \cup {t},
                                                  !.closed = @ \cup {t}])
            ELSE [acc EXCEPT !.calls = @ \cup {t}, !.failed = @ \cup {t}]

AggCloseLoopAll(todo, new_tickets, okSet, acc) ==
    [calls  |-> {todo[i] : i \in DOMAIN todo},
     closed |-> {todo[i] : i \in DOMAIN todo} \cap okSet,
     failed |-> {todo[i] : i \in DOMAIN todo} \ okSet]

\* limits.py lines 106-120: the loop over the snapshot's positions; only the
\* tickets of new_tickets get a call of close_position_full.
RECURSIVE AggCloseLoop(_, _, _, _)
AggCloseLoop(todo, new_tickets, okSet, acc) ==
    IF todo = <<>> THEN acc
    ELSE LET t == Head(todo)
             next == IF t \notin new_tickets THEN acc
                     ELSE [calls  |-> acc.calls \cup {t},
                           closed |-> IF t \in okSet THEN acc.closed \cup {t} ELSE acc.closed,
                           failed |-> IF t \in okSet THEN acc.failed ELSE acc.failed \cup {t}]
         IN AggCloseLoop(Tail(todo), new_tickets, okSet, next)

\* One call of enforce_aggregate_risk on the persisted state st for a
\* snapshot with total_risk_pct total and open tickets tickets_current.
AggCall(st, total, tickets_current, okSet, threshold_pct, max_block_attempts) ==
    LET baseline == st.baseline
        attempts == st.attempts
        risk_block_active == st.blocked
        new_tickets == tickets_current \ baseline
        res == AggCloseLoop(SeqOfSet(tickets_current), new_tickets, okSet, NoCloses)
        attempts2 == AttemptsAfter(attempts, new_tickets)
        blocked2 == BlockAfter(risk_block_active, attempts2, max_block_attempts)
    IN IF FirstRun(baseline) \/ AtOrBelow(total, threshold_pct)
       THEN [st  |-> [present |-> TRUE, baseline |-> tickets_current,
                      attempts |-> 0, blocked |-> FALSE],
             rep |-> [new_tickets_detected |-> {}, closed |-> {}, failed |-> {},
                      attempts_before |-> attempts, attempts_after |-> 0,
                      risk_block_active_before |-> risk_block_active,
                      risk_block_active_after |-> FALSE],
             calls |-> {}]
       ELSE [st  |-> [present |-> TRUE, baseline |-> baseline,
                      attempts |-> attempts2, blocked |-> blocked2],
             rep |-> [new_tickets_detected |-> new_tickets,
                      closed |-> res.closed, failed |-> res.failed,
                      attempts_before |-> attempts, attempts_after |-> attempts2,
                      risk_block_active_before |-> risk_block_active,
                      risk_block_active_after |-> blocked2],
             calls |-> res.calls]

\* The snapshots the reader can return after the snapshot last: a ticket
\* that left the venue does not come back, and a snapshot without positions
\* has total_risk_pct 0.
SnapRisks(tickets) == IF tickets = {} THEN {0} ELSE RiskPcts

enforce_aggregate_risk(threshold_pct, max_block_attempts) ==
    \E tickets_current \in SUBSET (AggTickets \ aggGone) :
      \E total \in SnapRisks(tickets_current), okSet \in SUBSET tickets_current :
        \E r \in {AggCall(aggSt, total, tickets_current, okSet,
                           threshold_pct, max_block_attempts)} :
           /\ okSet \subseteq r.calls
           /\ r.st.attempts <= MaxAttemptsSeen
           /\ aggSt' = r.st
           /\ aggRep' = r.rep
           /\ aggCalls' = r.calls
           /\ aggSnap' = [total |-> total, tickets |-> tickets_current,
                          fresh |-> ~aggSt.present]
           /\ aggSeen' = IF ~aggSt.present \/ total <= threshold_pct THEN {}
                         ELSE aggSeen \cup (tickets_current \ aggSt.baseline)
           /\ aggGone' = aggGone \cup (aggSnap.tickets \ tickets_current) \cup r.rep.closed
           /\ op' = "enforce_aggregate_risk"
           /\ UNCHANGED <<ddData, closeVars, ptVars, ptiVars, fileVars>>

EnforceAggregate == enforce_aggregate_risk(DEFAULT_THRESHOLD_PCT, DEFAULT_MAX_ATTEMPTS)

\* --------------------------------------------------------- position closer
\* One call of close_position_full or modify_position_sltp is a sequence of
\* steps, one per call it makes to the terminal (symbol lookup, quote fetch,
\* order_send) or to the AutoTrading hotkey (uia.py).  cl.trace lists the
\* calls made so far in the running invocation.

TRADE_RETCODE_DONE == 10009
TRADE_RETCODE_REJECT == 10006
AT_DISABLED_CODES == {10027, 10028}
RES_S_OK == 1                  \* last_error code after a successful call
RES_E_FAIL == -10004           \* last_error code of a lost connection

\* What one mt5.order_send call can give back: the result's retcode (None
\* when order_send returned None), its comment, and mt5.last_error()'s code.
Responses ==
    { [retcode |-> TRADE_RETCODE_DONE,   comment |-> "Request executed", last_error |-> RES_S_OK],
      [retcode |-> 10027,                comment |-> "",                 last_error |-> RES_S_OK],
      [retcode |-> 10028,                comment |-> "",                 last_error |-> RES_S_OK],
      [retcode |-> TRADE_RETCODE_REJECT, comment |-> "AutoTrading disabled by client",
                                                                         last_error |-> RES_S_OK],
      [retcode |-> None,                 comment |-> "",                 last_error |-> 10028],
      [retcode |-> None,                 comment |-> "",                 last_error |-> 10027],
      [retcode |-> TRADE_RETCODE_REJECT, comment |-> "Rejected",         last_error |-> RES_S_OK],
      [retcode |-> None,                 comment |-> "",                 last_error |-> RES_E_FAIL] }
NoPayload == [retcode |-> None, comment |-> "", last_error |-> 0]

\* guard.py lines 127, 151: "result and result.retcode == TRADE_RETCODE_DONE"
Sent(result) == result.retcode = TRADE_RETCODE_DONE

\* guard.py lines 164, 166: the comments whose lower-cased text contains
\* "autotrading disabled".
SaysAutotradingDisabled(cm) == cm \in {"AutoTrading disabled by client"}

is_autotrading_disabled_by_code(payload) ==
    \/ payload.retcode \in AT_DISABLED_CODES
    \/ payload.last_error \in AT_DISABLED_CODES

\* guard.py lines 155-168
is_autotrading_disabled(payload) ==
    \/ payload.retcode \in AT_DISABLED_CODES
    \/ SaysAutotradingDisabled(payload.comment)
    \/ payload.last_error \in AT_DISABLED_CODES

\* The results a call returns: (ok, {"mode": ...}) or, from the handler of
\* an exception, (False, {"error": ...}) without a "mode" key.
NoMode == "<absent>"
NoRet == [returned |-> FALSE, ok |-> FALSE, mode |-> NoMode, error |-> FALSE]
Ret(ok, mode) == [returned |-> TRUE, ok |-> ok, mode |-> mode, error |-> FALSE]
Raised == [returned |-> TRUE, ok |-> FALSE, mode |-> NoMode, error |-> TRUE]

ClIdle == [op |-> "none", pc |-> "idle", phase |-> "direct", attempt |-> 0, price |-> 0,
           quotes |-> 0, trace |-> <<>>, payload |-> NoPayload, direct |-> NoPayload,
           uia_on |-> FALSE,
           ret |-> NoRet, at_call |-> FALSE]

Ev(ev, fill, price, phase) == [ev |-> ev, fill |-> fill, price |-> price, phase |-> phase]

RoundSendsOne(kind) == 1
RoundSendsFive(kind) == IF kind = "close" THEN 5 ELSE 1

\* The order_send calls of one round: _order_send_tirano's 3 + 1 for a close
\* (guard.py lines 107-136), the single order_send of a modification
\* (guard.py lines 256, 276).
RoundSends(kind) == IF kind = "close" THEN 4 ELSE 1

\* guard.py lines 109, 134: type_filling of the attempt; a TRADE_ACTION_SLTP
\* request carries none.
Filling(kind, attempt) ==
    IF kind # "close" THEN "" ELSE IF attempt <= 3 THEN "IOC" ELSE "FOK"

\* The entry of the call up to the end of _symbol_ensure_visible, which
\* raises when the terminal does not know the symbol.  The call finds the
\* AutoTrading switch on or off.
Invoke(kind) ==
    /\ cl.pc \in {"idle", "done"}
    /\ \E known \in BOOLEAN, switch \in BOOLEAN :
         /\ atSwitch' = switch
         /\ cl' = [ClIdle EXCEPT !.op = kind, !.at_call = switch, !.attempt = 1,
                                 !.pc = IF ~known THEN "done"
                                        ELSE IF kind = "close" THEN "price" ELSE "send",
                                 !.ret = IF known THEN NoRet ELSE Raised]
    /\ op' = kind
    /\ UNCHANGED <<ddData, aggVars, ptVars, ptiVars, fileVars>>

close_position_full == Invoke("close")
modify_position_sltp == Invoke("modify")

\* _req() of close_position_full: _get_market_price raises when
\* symbol_info_tick gives no tick; the request built carries the price read.
get_market_price ==
    /\ cl.pc = "price"
    /\ \E tick \in BOOLEAN :
         cl' = IF tick
               THEN [cl EXCEPT !.quotes = @ + 1, !.price = cl.quotes + 1, !.attempt = 1,
                               !.pc = "send",
                               !.trace = Append(@, Ev("tick", "", cl.quotes + 1, cl.phase))]
               ELSE [cl EXCEPT !.pc = "done", !.ret = Raised]
    /\ op' = "get_market_price"
    /\ UNCHANGED <<atSwitch, ddData, aggVars, ptVars, ptiVars, fileVars>>

\* Where the call goes once a round of sends is over.
AfterRound(c, result) ==
    IF c.phase = "direct"
    THEN IF Sent(result)
         THEN [c EXCEPT !.direct = result, !.pc = "done", !.ret = Ret(TRUE, "api")]
         ELSE IF ~is_autotrading_disabled(result)
              THEN [c EXCEPT !.direct = result, !.pc = "done", !.ret = Ret(FALSE, "api")]
              ELSE [c EXCEPT !.direct = result, !.pc = "on"]
    ELSE [c EXCEPT !.pc = "off"]

\* One mt5.order_send call, of _order_send_tirano or of
\* modify_position_sltp.
order_send ==
    /\ cl.pc = "send"
    /\ \E result \in Responses :
         LET sent == [cl EXCEPT !.payload = result,
                                !.trace = Append(@, Ev("send", Filling(cl.op, cl.attempt),
                                                       cl.price, cl.phase))]
         IN cl' = IF Sent(result) \/ cl.attempt >= RoundSends(cl.op)
                  THEN AfterRound(sent, result)
                  ELSE [sent EXCEPT !.attempt = @ + 1]
    /\ op' = "order_send"
    /\ UNCHANGED <<atSwitch, ddData, aggVars, ptVars, ptiVars, fileVars>>

\* uia.py lines 5-16: Ctrl+E flips the switch whatever its state; nothing is
\* sent when the terminal window cannot be focused.
PressCtrlE(switch, focused) == IF focused THEN ~switch ELSE switch

\* uia.py lines 18-35, called at guard.py lines 209, 273
ensure_autotrading_on ==
    /\ cl.pc = "on"
    /\ \E focused \in BOOLEAN :
         /\ atSwitch' = PressCtrlE(atSwitch, focused)
         /\ cl' = [cl EXCEPT !.uia_on = focused, !.phase = "retry", !.attempt = 1,
                             !.pc = IF cl.op = "close" THEN "price" ELSE "send",
                             !.trace = Append(@, Ev("on", "", 0, "retry"))]
    /\ op' = "ensure_autotrading_on"
    /\ UNCHANGED <<ddData, aggVars, ptVars, ptiVars, fileVars>>

\* uia.py lines 37-44, called at guard.py lines 217, 289, and the return
\* that follows it.
ensure_autotrading_off ==
    /\ cl.pc = "off"
    /\ \E focused \in BOOLEAN :
         /\ atSwitch' = PressCtrlE(atSwitch, focused)
         /\ cl' = [cl EXCEPT !.pc = "done",
                             !.ret = Ret(Sent(cl.payload), "api+toggle_hotkey"),
                             !.trace = Append(@, Ev("off", "", 0, "retry"))]
    /\ op' = "ensure_autotrading_off"
    /\ UNCHANGED <<ddData, aggVars, ptVars, ptiVars, fileVars>>

\* ------------------------------------------- per-trade, immediate mode
\* Every position is a buy of one lot opened at OpenPrice on a symbol whose
\* tick size and tick value are 1, so the money at risk is the distance from
\* the open price to the stop-loss.
PtTickets == 1..MaxPtTicket
OpenPrice == 100
PtSLs == {0, 80, 90}              \* the venue's sl of a position (0: none)
PtEquities == {0, 1000}
Abs(x) == IF x >= 0 THEN x ELSE -x

\* mt5_reader.py line 212: "sl" of the position object
ReaderSl(sl) == IF sl = 0 THEN None ELSE sl
\* mt5_reader.py lines 24-27, 35-43, 219-227: risk_money
RiskMoney(sl) == IF ReaderSl(sl) = None THEN None ELSE Abs(OpenPrice - sl)
\* mt5_reader.py lines 283-286: risk_pct, filled in by snapshot()
RiskPct(risk_money, equity) ==
    IF risk_money # None /\ equity > 0 THEN (risk_money * 10000) \div equity ELSE None
\* The position object of a snapshot for a position whose venue sl is sl.
PosObj(sl, equity) ==
    [sl |-> ReaderSl(sl), risk_pct |-> RiskPct(RiskMoney(sl), equity),
     missing_sl |-> RiskMoney(sl) = None]

PtSnapNone == [equity |-> 0, pos |-> <<>>]
PtRepNone == [violations |-> {}, closed |-> {}, failed |-> {}, skipped |-> {},
              breach_logged |-> {}]

\* guard.py lines 412-413, main.py lines 389-390
MissingSl(p) == p.sl = None \/ p.sl = 0

ViolatesAtLimit(p, r_pct, max_risk_pct) ==
    MissingSl(p) \/ (r_pct # None /\ r_pct >= max_risk_pct)

\* guard.py line 417, main.py line 407
Violates(p, r_pct, max_risk_pct) ==
    MissingSl(p) \/ (r_pct # None /\ r_pct > max_risk_pct)

\* main.py lines 393-404: the risk main.py works out itself when the
\* snapshot gave none for a position with a stop-loss.  The position object
\* has no "price_open" key, so entry is 0.
InlineRisk(p, equity) ==
    IF p.risk_pct = None /\ ~MissingSl(p)
    THEN IF equity > 0 THEN (Abs(0 - p.sl) * 10000) \div equity ELSE None
    ELSE p.risk_pct

\* guard.py lines 404-436, main.py lines 382-428: the loop over the
\* snapshot's positions.
RECURSIVE PerTradeLoop(_, _, _, _)
PerTradeLoop(todo, viol, okSet, acc) ==
    IF todo = <<>> THEN acc
    ELSE LET t == Head(todo)
             next == IF t \notin viol
                     THEN [acc EXCEPT !.skipped = @ \cup {t}]
                     ELSE [acc EXCEPT !.violations = @ \cup {t},
                                      !.calls = @ \cup {t},
                                      !.closed = IF t \in okSet THEN @ \cup {t} ELSE @,
                                      !.failed = IF t \in okSet THEN @ ELSE @ \cup {t}]
         IN PerTradeLoop(Tail(todo), viol, okSet, next)
PtAccNone == [violations |-> {}, calls |-> {}, closed |-> {}, failed |-> {}, skipped |-> {}]

\* guard.py lines 303-327: what kill_status(), risk_block_status() and
\* dd_status() report to _block_active(): the kill switch is active, the
\* aggregate limiter is blocked, an unexpired drawdown cooldown, awaiting
\* unlock.  The passes see no flag, one flag alone, or all four.
BlockFlags ==
    {f \in [kill_active : BOOLEAN, dd_cooldown : BOOLEAN, dd_await : BOOLEAN,
            risk_block : BOOLEAN] :
       \/ Cardinality({k \in {"kill_active", "dd_cooldown", "dd_await", "risk_block"} : f[k]}) <= 1
       \/ f.kill_active /\ f.dd_cooldown /\ f.dd_await /\ f.risk_block}
\* guard.py lines 303-334
block_active(f) ==
    [kill_active |-> f.kill_active, dd_cooldown |-> f.dd_cooldown,
     dd_await |-> f.dd_await, risk_block |-> f.risk_block,
     any_block |-> f.kill_active \/ f.dd_cooldown \/ f.dd_await \/ f.risk_block]
PtBlkNone ==
    [kill_active |-> FALSE, dd_cooldown |-> FALSE, dd_await |-> FALSE,
     risk_block |-> FALSE, any_block |-> FALSE]

NewBreachesAgain(any_block, tickets, already) ==
    IF any_block /\ tickets # {} THEN tickets ELSE {}

\* guard.py lines 374-402: tickets seen open under an active block and not
\* reported before.
NewBreaches(any_block, tickets, already) ==
    IF any_block /\ tickets # {} THEN tickets \ already ELSE {}

\* The snapshots the reader can return: the positions open now, each with
\* the stop-loss it has at the venue, and the account's equity.
PtSnapshots ==
    UNION { { [equity |-> e, pos |-> [t \in T |-> PosObj(sl[t], e)]] :
                e \in PtEquities, sl \in [T -> PtSLs] } :
            T \in SUBSET (PtTickets \ ptGone) }

PerTradePass(snap, viol, okSet, blk, breaches, name) ==
    \E res \in {PerTradeLoop(SeqOfSet(DOMAIN snap.pos), viol, okSet, PtAccNone)} :
       /\ ptSnap' = snap
       /\ ptCalls' = res.calls
       /\ ptRep' = [violations |-> res.violations, closed |-> res.closed,
                    failed |-> res.failed, skipped |-> res.skipped,
                    breach_logged |-> breaches]
       /\ ptBreach' = ptBreach \cup breaches
       /\ ptBlk' = blk
       /\ ptGone' = ptGone \cup (DOMAIN ptSnap.pos \ DOMAIN snap.pos) \cup res.closed
       /\ op' = name
       /\ UNCHANGED <<ddData, aggVars, closeVars, ptiVars, fileVars>>

\* guard.py lines 349-438
enforce_per_trade_risk(max_risk_pct) ==
    \E snap \in PtSnapshots, flags \in BlockFlags :
      \E viol \in {{t \in DOMAIN snap.pos :
                      Violates(snap.pos[t], snap.pos[t].risk_pct, max_risk_pct)}} :
        \E okSet \in SUBSET viol, blk \in {block_active(flags)} :
          PerTradePass(snap, viol, okSet, blk,
                       NewBreaches(blk.any_block, DOMAIN snap.pos, ptBreach),
                       "enforce_per_trade_risk")

\* main.py lines 373-430
enforce_per_trade_inline(max_risk_pct) ==
    \E snap \in PtSnapshots :
      \E viol \in {{t \in DOMAIN snap.pos :
                      /\ Violates(snap.pos[t], InlineRisk(snap.pos[t], snap.equity),
                                  max_risk_pct)
                      /\ t # 0}} :
        \E okSet \in SUBSET viol :
          PerTradePass(snap, viol, okSet, PtBlkNone, {}, "enforce_per_trade_inline")

EnforcePerTrade == enforce_per_trade_risk(DEFAULT_MAX_RISK_PCT)
EnforcePerTradeInline == enforce_per_trade_inline(DEFAULT_MAX_RISK_PCT)

\* ------------------------------------------ per-trade, interactive mode
\* per_trade_interactive.py.  Positions are as in immediate mode.  The
\* take-profit, which the enforcer passes through unchanged, is left out.
PtiSLs == {0, 90, 95}
PtiEquities == {0, 500, 960, 1000}
Point == 1                        \* symbol_info "point"
PtiMsgKinds == { [text |-> "1", from_is_bot |-> FALSE],
                 [text |-> "2", from_is_bot |-> FALSE] }
PtiAllMsgKinds == PtiMsgKinds \cup { [text |-> "1", from_is_bot |-> TRUE],
                                     [text |-> "12", from_is_bot |-> FALSE] }

\* per_trade_interactive.py line 103: the state when no file exists
PtiEmpty == [telegram_offset |-> None, tickets |-> <<>>]
PtiRepNone == [adjusted |-> {}, override |-> {}, kept |-> {}, timed_out |-> {},
               adjust_failed |-> {}, pending |-> {}]

Put(f, k, v) == [x \in DOMAIN f \cup {k} |-> IF x = k THEN v ELSE f[x]]
RestrictNothing(f, S) == f
Restrict(f, S) == [x \in DOMAIN f \cap S |-> f[x]]

\* per_trade_interactive.py lines 123-127: round(price, digits) of a price
\* given in tenths of a point, to whole points (digits is the symbol's, so
\* one point is the last digit); Python rounds a tie to the even neighbour.
round_price(tenths) ==
    LET q == tenths \div 10
        r == tenths % 10
    IN IF r < 5 THEN q
       ELSE IF r > 5 THEN q + 1
       ELSE IF q % 2 = 0 THEN q ELSE q + 1

compute_sl_unchecked(equity, max_risk_pct) ==
    [sl |-> 10 * OpenPrice - (equity * max_risk_pct) \div 1000, reason |-> ""]

\* per_trade_interactive.py lines 131-183, for a buy of one lot with tick
\* size and tick value 1: the stop-loss at which the risk is max_risk_pct
\* of the equity, in tenths of a point, or None with the reason.
compute_sl_for_risk_tenths(equity, max_risk_pct) ==
    LET risk_money_allowed == (equity * max_risk_pct) \div 1000
        price_diff == risk_money_allowed
        sl == 10 * OpenPrice - price_diff
    IN IF equity <= 0 THEN [sl |-> None, reason |-> "equity invalida"]
       ELSE IF risk_money_allowed <= 0 THEN [sl |-> None, reason |-> "risco permitido invalido"]
       ELSE IF sl <= 0 THEN [sl |-> None, reason |-> "SL calculado invalido"]
       ELSE [sl |-> sl, reason |-> ""]

\* line 462 followed by line 465: sl_target_rounded and the reason
compute_sl_for_risk(equity, max_risk_pct) ==
    LET target == compute_sl_for_risk_tenths(equity, max_risk_pct)
    IN IF target.sl = None THEN target
       ELSE [sl |-> round_price(target.sl), reason |-> ""]

select_first_pending(tickets_state) ==
    LET cand == {t \in DOMAIN tickets_state : tickets_state[t].status = "pending"}
    IN IF cand = {} THEN None
       ELSE CHOOSE t \in cand : \A u \in cand : t <= u

\* per_trade_interactive.py lines 186-198: the pending entry with the
\* greatest (prompted_at, ticket), None when no entry is pending.
select_pending_ticket(tickets_state) ==
    LET cand == {t \in DOMAIN tickets_state : tickets_state[t].status = "pending"}
    IN IF cand = {} THEN None
       ELSE CHOOSE t \in cand :
              \A u \in cand :
                \/ tickets_state[u].prompted_at < tickets_state[t].prompted_at
                \/ /\ tickets_state[u].prompted_at = tickets_state[t].prompted_at
                   /\ u <= t

\* Notify.py lines 103-168: the updates from update_offset on (all the
\* server holds when there is no offset) and the offset after them;
\* nothing, and the offset given, when the request fails.
telegram_poll_chat_messages(update_offset, inbox, reached) ==
    LET wanted(m) == update_offset = None \/ m.update_id >= update_offset
        msgs == SelectSeq(inbox, wanted)
    IN IF ~reached \/ msgs = <<>>
       THEN [msgs |-> <<>>, next_offset |-> update_offset]
       ELSE [msgs |-> msgs, next_offset |-> msgs[Len(msgs)].update_id + 1]

\* Notify.py lines 115-121, getUpdates with an offset: the server forgets
\* the updates below the offset once a request with it reaches it.
Confirm(update_offset, inbox, reached) ==
    LET held(m) == m.update_id >= update_offset
    IN IF reached /\ update_offset # None THEN SelectSeq(inbox, held) ELSE inbox

\* per_trade_interactive.py lines 268-282: the last "1" / "2" among the
\* messages not sent by a bot and not older than the prompt.
RECURSIVE DecideFirst(_, _, _)
DecideFirst(msgs, min_ts, decision) ==
    IF msgs = <<>> THEN decision
    ELSE LET m == Head(msgs)
             skip == \/ m.from_is_bot
                     \/ (min_ts # 0 /\ m.date < min_ts - 1)
         IN DecideFirst(Tail(msgs), min_ts,
                        IF ~skip /\ m.text \in {"1", "2"} /\ decision = ""
                        THEN m.text ELSE decision)

RECURSIVE DecideAnySender(_, _, _)
DecideAnySender(msgs, min_ts, decision) ==
    IF msgs = <<>> THEN decision
    ELSE LET m == Head(msgs)
             skip == min_ts # 0 /\ m.date < min_ts - 1
         IN DecideAnySender(Tail(msgs), min_ts,
                            IF ~skip /\ m.text \in {"1", "2"} THEN m.text ELSE decision)

RECURSIVE Decide(_, _, _)
Decide(msgs, min_ts, decision) ==
    IF msgs = <<>> THEN decision
    ELSE LET m == Head(msgs)
             skip == \/ m.from_is_bot
                     \/ (min_ts # 0 /\ m.date < min_ts - 1)
         IN Decide(Tail(msgs), min_ts,
                   IF ~skip /\ m.text \in {"1", "2"} THEN m.text ELSE decision)

PtiCall(ticket, sl, comment, ok) == [ticket |-> ticket, sl |-> sl, comment |-> comment, ok |-> ok]

\* per_trade_interactive.py lines 248-376: the poll of decisions for the
\* selected pending entry.  a holds the tick's tickets_state ts, offset,
\* report rep, modify calls and prompts so far.
DecisionPhase(a, tnow, reached, okRestore) ==
    LET tk == select_pending_ticket(a.ts)
    IN IF tk = None THEN a
       ELSE LET st == a.ts[tk]
                polled == telegram_poll_chat_messages(a.offset, a.inbox, reached)
                a1 == [a EXCEPT !.offset = IF polled.next_offset # None
                                           THEN polled.next_offset ELSE @,
                                !.inbox = Confirm(a.offset, a.inbox, reached),
                                !.polled = TRUE]
                decision == Decide(polled.msgs, st.prompted_at, "")
                keep == [a1 EXCEPT !.ts = Put(@, tk, [st EXCEPT !.status = "keep"]),
                                   !.rep.kept = @ \cup {tk}]
            IN IF decision = "1"
               THEN IF st.sl_original = None THEN keep
                    ELSE LET a2 == [a1 EXCEPT !.calls = Append(@, PtiCall(tk, st.sl_original,
                                                   "RG override SL original", okRestore))]
                         IN IF okRestore
                            THEN [a2 EXCEPT !.ts = Put(@, tk, [st EXCEPT !.status = "override"]),
                                            !.rep.override = @ \cup {tk}]
                            ELSE a2
               ELSE IF decision = "2" THEN keep
               ELSE a1

TimedOutAtDeadline(st, tnow) == st.deadline_at # 0 /\ tnow >= st.deadline_at

\* per_trade_interactive.py lines 382-383
TimedOut(st, tnow) == st.deadline_at # 0 /\ tnow > st.deadline_at

\* per_trade_interactive.py lines 378-406: the timeout of pending entries
TimeoutPhase(a, tnow) ==
    LET late == {t \in DOMAIN a.ts : a.ts[t].status = "pending" /\ TimedOut(a.ts[t], tnow)}
    IN [a EXCEPT !.ts = [t \in DOMAIN a.ts |->
                           IF t \in late THEN [a.ts[t] EXCEPT !.status = "timeout"]
                           ELSE a.ts[t]],
                 !.rep.timed_out = @ \cup late]

SkipsNothing(st) == FALSE

\* per_trade_interactive.py lines 422-424: the entries the adjustment loop
\* passes over
Skips(st) == st.status = "override"

AtTargetNever(sl_now, sl_target_rounded) == FALSE

\* per_trade_interactive.py lines 468-473: the position's stop-loss is
\* within half a point of the rounded target.
AtTarget(sl_now, sl_target_rounded) ==
    /\ sl_target_rounded # None
    /\ sl_now # None
    /\ 2 * Abs(sl_now - sl_target_rounded) <= Point

\* per_trade_interactive.py lines 410-579: the adjustment of one position
AdjustOne(a, t, pos, equity, tnow, reached, okAdjust, max_risk_pct, timeout) ==
    LET sl_now == pos.sl
        missing_sl == pos.missing_sl \/ sl_now = None \/ sl_now = 0
        known == t \in DOMAIN a.ts
        violates == Violates(pos, pos.risk_pct, max_risk_pct)
        st == IF known THEN a.ts[t]
              ELSE [status |-> "pending",
                    sl_original |-> IF missing_sl THEN None ELSE sl_now,
                    sl_adjusted |-> None, prompt_sent |-> FALSE,
                    prompted_at |-> tnow, deadline_at |-> tnow + timeout]
        sync == ~st.prompt_sent /\ a.offset = None
        sync_poll == telegram_poll_chat_messages(None, a.inbox, reached)
        a1 == [a EXCEPT !.ts = Put(@, t, st),
                        !.offset = IF sync /\ sync_poll.next_offset # None
                                   THEN sync_poll.next_offset ELSE @,
                        !.synced = @ \/ sync]
        target == compute_sl_for_risk(equity, max_risk_pct)
        ok == t \in okAdjust
        a2 == [a1 EXCEPT !.calls = Append(@, PtiCall(t, target.sl, "RG ajusta SL", ok))]
        failed(b, reason) ==
            IF st.status # "adjust_failed"
            THEN [b EXCEPT !.ts = Put(@, t, [st EXCEPT !.status = "adjust_failed"]),
                           !.rep.adjust_failed = @ \cup {[ticket |-> t, reason |-> reason]}]
            ELSE b
    IN IF known /\ Skips(a.ts[t]) THEN a
       ELSE IF ~violates THEN a
       ELSE IF AtTarget(sl_now, target.sl)
            THEN [a1 EXCEPT !.rep.pending = @ \cup {t}]
       ELSE IF target.sl = None THEN failed(a1, target.reason)
       ELSE IF ok
            THEN [a2 EXCEPT !.ts = Put(@, t, [st EXCEPT !.sl_adjusted = target.sl,
                                                         !.prompt_sent = TRUE]),
                            !.rep.adjusted = @ \cup {t},
                            !.prompts = IF st.prompt_sent THEN @ ELSE @ \cup {t}]
            ELSE failed(a2, "modify_position_sltp failed")

\* per_trade_interactive.py line 409: the loop over the snapshot's positions
RECURSIVE AdjustLoop(_, _, _, _, _, _, _, _)
AdjustLoop(a, todo, snap, tnow, reachedSync, okAdjust, max_risk_pct, timeout) ==
    IF todo = <<>> THEN a
    ELSE AdjustLoop(AdjustOne(a, Head(todo), snap.pos[Head(todo)], snap.equity, tnow,
                              reachedSync, okAdjust, max_risk_pct, timeout),
                    Tail(todo), snap, tnow, reachedSync, okAdjust, max_risk_pct, timeout)

\* per_trade_interactive.py lines 200-591: one call, from the persisted
\* state, the snapshot, the clock, the chat's updates and the outcomes of
\* the polls and of the modify orders, to the state it persists, its
\* report, its modify calls and its prompts.
InteractivePass(state, snap, tnow, inbox, reachedPoll, reachedSync, okRestore, okAdjust, max_risk_pct, timeout) ==
    LET a0 == [ts |-> Restrict(state.tickets, DOMAIN snap.pos),
               offset |-> state.telegram_offset, inbox |-> inbox, rep |-> PtiRepNone,
               calls |-> <<>>, prompts |-> {}, polled |-> FALSE, synced |-> FALSE]
        a1 == DecisionPhase(a0, tnow, reachedPoll, okRestore)
        a2 == TimeoutPhase(a1, tnow)
        a3 == AdjustLoop(a2, SeqOfSet(DOMAIN snap.pos), snap, tnow, reachedSync,
                         okAdjust, max_risk_pct, timeout)
    IN [a3 EXCEPT !.rep.pending =
                     @ \cup {t \in DOMAIN a3.ts : a3.ts[t].status = "pending"}]

\* The snapshots a tick can be given.  A ticket that was absent and is
\* back is a new position.
PtiSnapshotsOf(tickets, equities) ==
    UNION { { [equity |-> e, pos |-> [t \in T |-> PosObj(sl[t], e)]] :
                e \in equities, sl \in [T -> PtiSLs] } :
            T \in SUBSET tickets }
PtiSnapshots(tickets) == PtiSnapshotsOf(tickets, PtiEquities)

PtiCalled(calls, comment) ==
    {calls[i].ticket : i \in {j \in DOMAIN calls : calls[j].comment = comment}}

\* per_trade_interactive.py lines 200-591 as main.py lines 569-575 calls
\* it, once a second; line 227 reads the clock.
enforce_per_trade_interactive_sl(max_risk_pct, timeout, snapshots) ==
    /\ ptiNow < MaxPtiTime
    /\ \E snap \in snapshots, reachedPoll, reachedSync, okRestore \in BOOLEAN :
         \E okAdjust \in SUBSET {t \in DOMAIN snap.pos :
                                   Violates(snap.pos[t], snap.pos[t].risk_pct, max_risk_pct)} :
           \E r \in {InteractivePass(ptiState, snap, ptiNow + 1, ptiInbox, reachedPoll,
                                     reachedSync, okRestore, okAdjust, max_risk_pct,
                                     timeout)} :
              /\ reachedPoll \/ r.polled
              /\ reachedSync \/ r.synced
              /\ okRestore \/ PtiCalled(r.calls, "RG override SL original") # {}
              /\ okAdjust \subseteq PtiCalled(r.calls, "RG ajusta SL")
              /\ ptiNow' = ptiNow + 1
              /\ ptiState' = [telegram_offset |-> r.offset, tickets |-> r.ts]
              /\ ptiInbox' = r.inbox
              /\ ptiSnap' = snap
              /\ ptiRep' = r.rep
              /\ ptiCalls' = r.calls
              /\ ptiPrompts' = r.prompts
              /\ op' = "enforce_per_trade_interactive_sl"
              /\ UNCHANGED <<ptiSent, ddData, aggVars, closeVars, ptVars, fileVars>>

EnforcePerTradeInteractive ==
    enforce_per_trade_interactive_sl(DEFAULT_MAX_RISK_PCT, PtiTimeout, PtiSnapshots({1}))

\* The same on accounts for which no stop-loss can be computed: without
\* equity, or with so much that the level falls to zero
EnforcePerTradeInteractiveAnyEquity ==
    enforce_per_trade_interactive_sl(DEFAULT_MAX_RISK_PCT, PtiTimeout,
                                     PtiSnapshotsOf({1}, {0, 500, 10000}))

\* The same on an account whose equity is positive
EnforcePerTradeInteractiveFunded ==
    enforce_per_trade_interactive_sl(DEFAULT_MAX_RISK_PCT, PtiTimeout,
                                     PtiSnapshotsOf({1}, {500, 1000}))

\* The same on an account with two positions
EnforcePerTradeInteractiveSeveral ==
    enforce_per_trade_interactive_sl(DEFAULT_MAX_RISK_PCT, PtiTimeout,
                                     PtiSnapshotsOf({1, 2}, {1000}))

\* Notify.py lines 133-166: somebody writes in the chat; the update carries
\* its id, the text, the sender's kind and the date.
chat_message(kinds) ==
    /\ ptiSent < MaxInbox
    /\ \E k \in kinds :
         ptiInbox' = Append(ptiInbox, [update_id |-> ptiSent + 1, text |-> k.text,
                                       from_is_bot |-> k.from_is_bot, date |-> ptiNow])
    /\ ptiSent' = ptiSent + 1
    /\ ptiSnap' = PtSnapNone
    /\ ptiRep' = PtiRepNone
    /\ ptiCalls' = <<>>
    /\ ptiPrompts' = {}
    /\ op' = "message"
    /\ UNCHANGED <<ptiNow, ptiState, ddData, aggVars, closeVars, ptVars, fileVars>>

\* The user answers the prompt.
ChatMessage == chat_message(PtiMsgKinds)

\* Anybody writes anything: the user, a bot, a text that is no option.
ChatMessageAny == chat_message(PtiAllMsgKinds)

\* ------------------------------------------- concurrent use of the files
\* dd_kill.py: _load() opens .riskguard_dd.json without the lock ("Sem lock
\* para leitura rapida; gravacoes usarao lock"); _save() takes the lock on
\* .riskguard_dd.lock for the write alone.  A call is therefore three steps:
\* _load(), entering _FileLock inside _save(), and os.replace + leaving it.
\* rwMain is the main loop's enforce_drawdown, rwCli the CLI's
\* set_2fa_pin / unlock_with_pin.
RwIdle == [pc |-> "idle", call |-> "none", st |-> DdEmpty, rep |-> DdRepNone]

\* _FileLock.__enter__: flock(LOCK_EX) blocks while another process holds it.
LockFree(lock) == lock = "none"

\* enforce_drawdown line 215: st = _load()
EnforceLoad ==
    /\ rwMain.pc = "idle"
    /\ rwMain' = [RwIdle EXCEPT !.pc = "loaded", !.call = "enforce_drawdown", !.st = ddSt]
    /\ op' = "enforce_drawdown:_load"
    /\ UNCHANGED <<ddData, ddLock, rwCli, aggDisk, aggWr, aggRead>>
    /\ UNCHANGED <<aggVars, closeVars, ptVars, ptiVars>>

\* enforce_drawdown lines 216-354, up to the lock inside _save(st): the
\* state to persist is computed from the copy _load() returned.
EnforceLock(dd_limit_pct, cooldown_days) ==
    /\ rwMain.pc = "loaded"
    /\ LockFree(ddLock)
    /\ \E login \in Logins, equity \in Equities :
         \E r \in {DdCall(rwMain.st, killUntil, now, login, equity, {}, {},
                           dd_limit_pct, cooldown_days)} :
            /\ rwMain' = [rwMain EXCEPT !.pc = "locked", !.st = r.st, !.rep = r.rep]
            /\ killUntil' = r.kill
    /\ ddLock' = "main"
    /\ op' = "enforce_drawdown:lock"
    /\ UNCHANGED <<now, ddSt, ddSnap, ddRep, ddCalls, pinIn, pinRep, cfgPin, ddSince>>
    /\ UNCHANGED <<rwCli, aggDisk, aggWr, aggRead>>
    /\ UNCHANGED <<aggVars, closeVars, ptVars, ptiVars>>

\* _save lines 100-102 and _FileLock.__exit__: the temporary file replaces
\* .riskguard_dd.json and the lock is released.
EnforceSave ==
    /\ rwMain.pc = "locked"
    /\ ddSt' = rwMain.st
    /\ ddLock' = "none"
    /\ rwMain' = [rwMain EXCEPT !.pc = "idle"]
    /\ op' = "enforce_drawdown:_save"
    /\ UNCHANGED <<now, killUntil, ddSnap, ddRep, ddCalls, pinIn, pinRep, cfgPin, ddSince>>
    /\ UNCHANGED <<rwCli, aggDisk, aggWr, aggRead>>
    /\ UNCHANGED <<aggVars, closeVars, ptVars, ptiVars>>

\* set_2fa_pin lines 119-123: the pin is checked, the state loaded and the
\* hash put into the copy.  A pin that is too short raises before _load().
CliSetPinLoad ==
    /\ rwCli.pc = "idle"
    /\ \E pin \in NewPins :
         rwCli' = IF Len(pin) < MinPinLen
                  THEN [RwIdle EXCEPT !.call = "set_2fa_pin:raised"]
                  ELSE [RwIdle EXCEPT !.pc = "loaded", !.call = "set_2fa_pin",
                                      !.st = [ddSt EXCEPT !.twofa = sha(pin)]]
    /\ op' = "set_2fa_pin:_load"
    /\ UNCHANGED <<ddData, ddLock, rwMain, aggDisk, aggWr, aggRead>>
    /\ UNCHANGED <<aggVars, closeVars, ptVars, ptiVars>>

\* unlock_with_pin lines 128-146: a wrong pin returns False without a write.
CliUnlockLoad ==
    /\ rwCli.pc = "idle"
    /\ \E pin \in Pins :
         rwCli' = IF ~PinOk(ddSt.twofa, pin)
                  THEN [RwIdle EXCEPT !.call = "unlock_with_pin:invalid"]
                  ELSE [RwIdle EXCEPT !.pc = "loaded", !.call = "unlock_with_pin",
                                      !.st = [ddSt EXCEPT
                                                !.awaiting = FALSE,
                                                !.cooldown = IF @ # None /\ now >= @
                                                             THEN None ELSE @]]
    /\ op' = "unlock_with_pin:_load"
    /\ UNCHANGED <<ddData, ddLock, rwMain, aggDisk, aggWr, aggRead>>
    /\ UNCHANGED <<aggVars, closeVars, ptVars, ptiVars>>

CliLock ==
    /\ rwCli.pc = "loaded"
    /\ LockFree(ddLock)
    /\ ddLock' = "cli"
    /\ rwCli' = [rwCli EXCEPT !.pc = "locked"]
    /\ op' = "cli:lock"
    /\ UNCHANGED <<ddData, rwMain, aggDisk, aggWr, aggRead>>
    /\ UNCHANGED <<aggVars, closeVars, ptVars, ptiVars>>

CliSave ==
    /\ rwCli.pc = "locked"
    /\ ddSt' = rwCli.st
    /\ ddLock' = "none"
    /\ rwCli' = [rwCli EXCEPT !.pc = "idle"]
    /\ op' = "cli:_save"
    /\ UNCHANGED <<now, killUntil, ddSnap, ddRep, ddCalls, pinIn, pinRep, cfgPin, ddSince>>
    /\ UNCHANGED <<rwMain, aggDisk, aggWr, aggRead>>
    /\ UNCHANGED <<aggVars, closeVars, ptVars, ptiVars>>

\* limits.py _save_state lines 31-33 writes .riskguard_limits.json in place:
\* open(STATE_FILE, "w") truncates the file, json.dump fills it and leaving
\* the with block closes it.  Between the two the bytes on disk are not a
\* JSON document.  aggSt is the last complete document.
AggWrIdle == [pc |-> "idle", doc |-> AggEmpty]
AggReadNone == [read |-> FALSE, risk_block_active |-> FALSE, block_attempts |-> 0,
                baseline_tickets |-> {}]

\* _load_state lines 22-29: json.load raises on a partial document and the
\* except clause returns {}.
load_state(disk, st) == IF disk = "partial" THEN AggEmpty ELSE st

\* enforce_aggregate_risk up to the open() of its _save_state(st)
AggSaveOpen(threshold_pct, max_block_attempts) ==
    /\ aggWr.pc = "idle"
    /\ \E tickets_current \in SUBSET (AggTickets \ aggGone) :
         \E total \in SnapRisks(tickets_current) :
           \E r \in {AggCall(load_state(aggDisk, aggSt), total, tickets_current, {},
                              threshold_pct, max_block_attempts)} :
              /\ r.st.attempts <= MaxAttemptsSeen
              /\ aggWr' = [pc |-> "writing", doc |-> r.st]
    /\ aggDisk' = "partial"
    /\ aggRead' = AggReadNone
    /\ op' = "enforce_aggregate_risk:open"
    /\ UNCHANGED <<ddData, aggVars, closeVars, ptVars, ptiVars, ddLock, rwMain, rwCli>>

\* json.dump and the close of the file
AggSaveClose ==
    /\ aggWr.pc = "writing"
    /\ aggSt' = aggWr.doc
    /\ aggDisk' = "complete"
    /\ aggWr' = [aggWr EXCEPT !.pc = "idle"]
    /\ aggRead' = AggReadNone
    /\ op' = "enforce_aggregate_risk:close"
    /\ UNCHANGED <<aggSnap, aggRep, aggCalls, aggSeen, aggGone>>
    /\ UNCHANGED <<ddData, closeVars, ptVars, ptiVars, ddLock, rwMain, rwCli>>

\* limits.py risk_block_status lines 137-144, called from another process
\* (guard.py _block_active, the CLI)
risk_block_status ==
    /\ \E st \in {load_state(aggDisk, aggSt)} :
         aggRead' = [read |-> TRUE, risk_block_active |-> st.blocked,
                     block_attempts |-> st.attempts, baseline_tickets |-> st.baseline]
    /\ op' = "risk_block_status"
    /\ UNCHANGED <<ddData, aggVars, closeVars, ptVars, ptiVars>>
    /\ UNCHANGED <<ddLock, rwMain, rwCli, aggDisk, aggWr>>

Init ==
    /\ now = 0
    /\ op = "init"
    /\ ddSt = DdEmpty
    /\ killUntil = None
    /\ ddSnap = SnapNone
    /\ ddRep = DdRepNone
    /\ ddCalls = {}
    /\ pinIn = NoPin
    /\ pinRep = "none"
    /\ cfgPin = NoPin
    /\ ddSince = "none"
    /\ aggSt = AggEmpty
    /\ aggSnap = AggSnapNone
    /\ aggRep = AggRepNone
    /\ aggCalls = {}
    /\ aggSeen = {}
    /\ aggGone = {}
    /\ cl = ClIdle
    /\ atSwitch = FALSE
    /\ ptSnap = PtSnapNone
    /\ ptRep = PtRepNone
    /\ ptCalls = {}
    /\ ptGone = {}
    /\ ptBreach = {}
    /\ ptBlk = PtBlkNone
    /\ ptiNow = 0
    /\ ptiState = PtiEmpty
    /\ ptiInbox = <<>>
    /\ ptiSent = 0
    /\ ptiSnap = PtSnapNone
    /\ ptiRep = PtiRepNone
    /\ ptiCalls = <<>>
    /\ ptiPrompts = {}
    /\ ddLock = "none"
    /\ rwMain = RwIdle
    /\ rwCli = RwIdle
    /\ aggDisk = "complete"
    /\ aggWr = AggWrIdle
    /\ aggRead = AggReadNone

NextDD ==
    \/ EnforceDrawdown
    \/ set_2fa_pin
    \/ unlock_with_pin
    \/ maybe_reenable_autotrade
    \/ AdvanceTime

SpecDD == Init /\ [][NextDD]_vars

NextAgg == EnforceAggregate

SpecAgg == Init /\ [][NextAgg]_vars

NextClose ==
    \/ close_position_full
    \/ modify_position_sltp
    \/ get_market_price
    \/ order_send
    \/ ensure_autotrading_on
    \/ ensure_autotrading_off

SpecClose == Init /\ [][NextClose]_vars

NextPerTrade ==
    \/ EnforcePerTrade
    \/ EnforcePerTradeInline

SpecPerTrade == Init /\ [][NextPerTrade]_vars

NextInteractive ==
    \/ EnforcePerTradeInteractive
    \/ ChatMessage

SpecInteractive == Init /\ [][NextInteractive]_vars

\* The same with a chat that also carries a bot's messages and other texts
NextMessages ==
    \/ EnforcePerTradeInteractiveFunded
    \/ ChatMessageAny

SpecMessages == Init /\ [][NextMessages]_vars

\* The interactive mode on accounts of any equity
NextInsufficient ==
    \/ EnforcePerTradeInteractiveAnyEquity
    \/ ChatMessage

SpecInsufficient == Init /\ [][NextInsufficient]_vars

\* The interactive mode with two positions
NextSeveral ==
    \/ EnforcePerTradeInteractiveSeveral
    \/ ChatMessage

SpecSeveral == Init /\ [][NextSeveral]_vars

\* The drawdown limiter, the aggregate limiter and the immediate per-trade
\* pass keep their state in files of their own (dd_kill.py line 19,
\* limits.py line 15, guard.py line 48); a behaviour of SpecPasses runs
\* one of the three.
NextPasses ==
    \/ /\ op \in {"init", "enforce_drawdown", "set_2fa_pin", "unlock_with_pin",
                  "maybe_reenable_autotrade", "clock"}
       /\ NextDD
    \/ /\ op \in {"init", "enforce_aggregate_risk"}
       /\ NextAgg
    \/ /\ op \in {"init", "enforce_per_trade_risk", "enforce_per_trade_inline"}
       /\ NextPerTrade

SpecPasses == Init /\ [][NextPasses]_vars

\* The main loop and the CLI as two processes on .riskguard_dd.json
NextRace ==
    \/ EnforceLoad
    \/ EnforceLock(DEFAULT_DD_LIMIT_PCT, CooldownDays)
    \/ EnforceSave
    \/ CliSetPinLoad
    \/ CliUnlockLoad
    \/ CliLock
    \/ CliSave

SpecRace == Init /\ [][NextRace]_vars

\* enforce_aggregate_risk in the main loop and a reader in another process
NextTorn ==
    \/ AggSaveOpen(DEFAULT_THRESHOLD_PCT, DEFAULT_MAX_ATTEMPTS)
    \/ AggSaveClose
    \/ risk_block_status

SpecTorn == Init /\ [][NextTorn]_vars

\* ------------------------------------------------------------------ claims
\* The snapshot of the step's enforce_drawdown call carries the login the
\* persisted drawdown state is keyed by.
SameAccount == ddSt.tracking /\ ddSt.login = ddSnap'.login
\* The persisted cooldown is active when the step's call is made.
CooldownActive == ddSt.cooldown # None /\ now < ddSt.cooldown
\* The peak the step's call measures the drawdown from.
TickPeak == IF ddSnap'.equity > ddSt.peak THEN ddSnap'.equity ELSE ddSt.peak

\* C1: an enforce_drawdown call on the tracked account whose drawdown from the
\* peak is at or above the limit, made outside an active cooldown and while
\* not awaiting unlock, reports tripped, calls the closer for every position
\* of the snapshot, files each position under exactly one of closed / failed,
\* and persists cooldown_until = now + cooldown_days and awaiting_unlock.
C1_TripCloses ==
    [][ ( /\ op' = "enforce_drawdown"
          /\ SameAccount
          /\ TickPeak > 0
          /\ (TickPeak - ddSnap'.equity) * 100 >= DEFAULT_DD_LIMIT_PCT * TickPeak
          /\ ~CooldownActive
          /\ ~ddSt.awaiting )
        => ( /\ ddRep'.tripped
             /\ ddCalls' = ddSnap'.positions
             /\ ddRep'.closed \cup ddRep'.failed = ddSnap'.positions
             /\ ddRep'.closed \cap ddRep'.failed = {}
             /\ ddSt'.cooldown = now + CooldownDays
             /\ ddSt'.awaiting ) ]_vars

\* The 21% scenario with one close accepted and one refused.
C1_Witness ==
    /\ op = "enforce_drawdown"
    /\ ddRep.tripped_now
    /\ ddRep.peak_equity = 1000
    /\ ddRep.equity = 790
    /\ ddRep.closed # {}
    /\ ddRep.failed # {}
    /\ ddCalls = ddSnap.positions
    /\ ddSt.cooldown = now + CooldownDays

\* C2: an enforce_drawdown call on the tracked account made while the
\* persisted cooldown is active calls the closer for no position and leaves
\* the persisted cooldown_until as it was.
C2_NoRetripInCooldown ==
    [][ (op' = "enforce_drawdown" /\ SameAccount /\ CooldownActive)
        => (ddCalls' = {} /\ ddSt'.cooldown = ddSt.cooldown) ]_vars

\* A call in cooldown, after an unlock, with the drawdown still over the
\* limit and positions open.
C2_Witness ==
    /\ op = "enforce_drawdown"
    /\ ddRep.in_cooldown
    /\ ddRep.tripped
    /\ ~ddRep.awaiting_unlock
    /\ ddSnap.positions # {}
    /\ ddCalls = {}

\* The step is an unlock_with_pin call given the configured secret.
CorrectUnlock == op' = "unlock_with_pin" /\ cfgPin # NoPin /\ pinIn' = cfgPin

\* C3 as stated: awaiting_unlock goes from true to false only in an unlock
\* with the correct secret, whatever the enforce_drawdown snapshots contain,
\* and a call that finds the cooldown expired clears cooldown_until only.
C3_OnlyUnlockClears ==
    [][ /\ (ddSt.awaiting /\ ~ddSt'.awaiting) => CorrectUnlock
        /\ (op' = "enforce_drawdown" /\ ddSt.awaiting /\ ~CooldownActive)
           => (ddSt'.awaiting /\ ddSt'.cooldown = None) ]_vars

\* C3 amended: awaiting_unlock goes from true to false only in an unlock with
\* the correct secret or in an enforce_drawdown call whose snapshot carries
\* another account login than the state (which re-initializes the state); a
\* call on the tracked account that finds the cooldown expired clears
\* cooldown_until and leaves awaiting_unlock true.
C3_UnlockOrOtherLoginClears ==
    [][ /\ (ddSt.awaiting /\ ~ddSt'.awaiting)
           => (CorrectUnlock \/ (op' = "enforce_drawdown" /\ ddSnap'.login # ddSt.login))
        /\ (op' = "enforce_drawdown" /\ SameAccount /\ ddSt.awaiting /\ ~CooldownActive)
           => (ddSt'.awaiting /\ ddSt'.cooldown = None) ]_vars

\* A call after the cooldown expired: cooldown_until gone, still awaiting.
C3_Witness ==
    /\ op = "enforce_drawdown"
    /\ ~ddRep.tracking_initialized
    /\ ~ddRep.tripped_now
    /\ ~ddRep.in_cooldown
    /\ ddRep.awaiting_unlock
    /\ ddSt.awaiting
    /\ ddSt.cooldown = None
    /\ now >= CooldownDays

\* C4: unlock_with_pin given the configured secret returns ok and leaves
\* awaiting_unlock false; given any other pin, or with no secret configured,
\* it returns not ok and leaves the persisted drawdown state as it was.
C4_UnlockCorrectness ==
    [][ op' = "unlock_with_pin"
        => IF cfgPin # NoPin /\ pinIn' = cfgPin
           THEN pinRep' = "ok" /\ ~ddSt'.awaiting
           ELSE pinRep' = "invalid" /\ ddSt' = ddSt ]_vars

\* An accepted unlock of a tripped account still in its cooldown.
C4_Witness ==
    /\ op = "unlock_with_pin"
    /\ pinRep = "ok"
    /\ ~ddSt.awaiting
    /\ ddSt.cooldown # None
    /\ killUntil # None

\* C5: after an enforce_drawdown call on the tracked account made with the
\* cooldown expired (or cleared) and awaiting_unlock true, the kill-switch
\* horizon lies in the future; a horizon that had lapsed or been cleared is
\* set to now + 24h.
C5_RearmWhileAwaiting ==
    [][ (op' = "enforce_drawdown" /\ SameAccount /\ ddSt.awaiting /\ ~CooldownActive)
        => ( /\ killUntil' # None
             /\ killUntil' > now
             /\ (killUntil = None \/ killUntil <= now) => killUntil' = now + RearmDays ) ]_vars

\* A call that re-armed the kill switch after the news daemon cleared it.
C5_Witness ==
    /\ op = "enforce_drawdown"
    /\ ddRep.awaiting_unlock
    /\ ~ddRep.in_cooldown
    /\ ~ddRep.tripped_now
    /\ ddSt.cooldown = None
    /\ killUntil = now + RearmDays
    /\ now > CooldownDays

\* C6: an enforce_drawdown call on the tracked account leaves peak_equity
\* unchanged inside an active cooldown, and outside one sets it to the
\* greater of the previous peak and the snapshot's equity, so it never
\* decreases.
C6_PeakMonotone ==
    [][ (op' = "enforce_drawdown" /\ SameAccount)
        => IF CooldownActive
           THEN ddSt'.peak = ddSt.peak
           ELSE ddSt'.peak = Max(ddSt.peak, ddSnap'.equity) /\ ddSt'.peak >= ddSt.peak ]_vars

\* A call inside the cooldown whose equity is above the peak.
C6_Witness ==
    /\ op = "enforce_drawdown"
    /\ ddRep.in_cooldown
    /\ ~ddRep.tracking_initialized
    /\ ddRep.equity > ddSt.peak
    /\ ddSt.peak > 0

\* The step is an enforce_aggregate_risk call that found a persisted state
\* and a snapshot above the threshold.
AggAboveStep ==
    /\ op' = "enforce_aggregate_risk"
    /\ aggSt.present
    /\ aggSnap'.total > DEFAULT_THRESHOLD_PCT

\* C7: after every above-threshold call, attempts is the number of distinct
\* tickets found outside the baseline since risk went above the threshold,
\* and blocked is true exactly when that number has reached max_attempts.
C7_AttemptsCountDistinct ==
    [][ AggAboveStep
        => ( /\ aggSt'.attempts = Cardinality(aggSeen')
             /\ aggSt'.blocked <=> (Cardinality(aggSeen') >= DEFAULT_MAX_ATTEMPTS) ) ]_vars

\* C8: after a call whose snapshot is at or below the threshold, attempts is
\* 0, blocked is false and the baseline is the snapshot's ticket set; no
\* position is closed; a repeat of the call on the same snapshot changes
\* nothing.
C8_AtOrBelowResets ==
    [][ (op' = "enforce_aggregate_risk" /\ aggSnap'.total <= DEFAULT_THRESHOLD_PCT)
        => ( /\ aggSt'.attempts = 0
             /\ ~aggSt'.blocked
             /\ aggSt'.baseline = aggSnap'.tickets
             /\ aggCalls' = {}
             /\ (op = "enforce_aggregate_risk"
                 /\ aggSnap.total = aggSnap'.total
                 /\ aggSnap.tickets = aggSnap'.tickets) => aggSt' = aggSt ) ]_vars

\* A call exactly at the threshold that cleared a block.
C8_Witness ==
    /\ op = "enforce_aggregate_risk"
    /\ aggSnap.total = DEFAULT_THRESHOLD_PCT
    /\ aggSnap.tickets # {}
    /\ aggRep.risk_block_active_before
    /\ aggRep.attempts_before >= DEFAULT_MAX_ATTEMPTS
    /\ ~aggSt.blocked
    /\ aggSt.attempts = 0
    /\ aggSt.baseline = aggSnap.tickets

\* C9: the call that finds no persisted state records the snapshot's tickets
\* as the baseline and closes nothing, whatever the total risk.
C9_ColdStart ==
    [][ (op' = "enforce_aggregate_risk" /\ ~aggSt.present)
        => ( /\ aggSt'.present
             /\ aggSt'.baseline = aggSnap'.tickets
             /\ aggSt'.attempts = 0
             /\ aggCalls' = {} ) ]_vars

\* A first call with positions open and the risk above the threshold.
C9_Witness ==
    /\ op = "enforce_aggregate_risk"
    /\ aggSnap.fresh
    /\ aggSnap.total > DEFAULT_THRESHOLD_PCT
    /\ Cardinality(aggSnap.tickets) >= 2
    /\ aggSt.baseline = aggSnap.tickets
    /\ aggCalls = {}

\* C10: an above-threshold call after the first adds no ticket to the
\* baseline and calls the closer for every ticket of the snapshot that is
\* not in the baseline.
C10_BaselineFrozenAbove ==
    [][ AggAboveStep
        => ( /\ aggSt'.baseline \subseteq aggSt.baseline
             /\ aggCalls' = aggSnap'.tickets \ aggSt.baseline ) ]_vars

\* C11: the persisted blocked flag goes from true to false only in an
\* enforce_aggregate_risk call whose snapshot has total_risk_pct at or below
\* the threshold; an above-threshold call that finds the flag set leaves it
\* set.
C11_BlockClearsOnlyAtOrBelow ==
    [][ /\ (aggSt.blocked /\ ~aggSt'.blocked)
           => (op' = "enforce_aggregate_risk" /\ aggSnap'.total <= DEFAULT_THRESHOLD_PCT)
        /\ (op' = "enforce_aggregate_risk" /\ aggSt.blocked
            /\ aggSnap'.total > DEFAULT_THRESHOLD_PCT) => aggSt'.blocked ]_vars

\* A block that survived an above-threshold call in which every position,
\* baseline included, had left the snapshot's new tickets.
C11_Witness ==
    /\ op = "enforce_aggregate_risk"
    /\ aggSnap.total > DEFAULT_THRESHOLD_PCT
    /\ aggRep.risk_block_active_before
    /\ aggRep.new_tickets_detected = {}
    /\ aggSt.blocked

\* ----------------------------------------------- claims: position closer
\* The calls of the running invocation other than quote fetches, each named
\* by what it is: a send by its fill mode, a toggle by its direction.
ClLabel(e) == IF e.ev = "send" THEN e.fill ELSE e.ev
RECURSIVE ClCalls(_)
ClCalls(tr) ==
    IF tr = <<>> THEN <<>>
    ELSE IF Head(tr).ev = "tick" THEN ClCalls(Tail(tr))
         ELSE <<ClLabel(Head(tr))>> \o ClCalls(Tail(tr))
ClCount(ev) == Cardinality({i \in DOMAIN cl.trace : cl.trace[i].ev = ev})
ClSends(phase) ==
    Cardinality({i \in DOMAIN cl.trace : cl.trace[i].ev = "send" /\ cl.trace[i].phase = phase})
\* The payload shows one of the three automation-disabled indicators.
ShowsDisabled(payload) ==
    \/ payload.retcode = 10027 \/ payload.retcode = 10028
    \/ payload.comment = "AutoTrading disabled by client"
    \/ payload.last_error = 10027 \/ payload.last_error = 10028
\* The invocation has returned and its direct round of sends ended in an
\* automation-disabled failure.
DirectFailedDisabled ==
    /\ cl.ret.returned
    /\ ClSends("direct") >= 1
    /\ cl.direct.retcode # TRADE_RETCODE_DONE
    /\ ShowsDisabled(cl.direct)
TiranoFills == <<"IOC", "IOC", "IOC", "FOK">>

\* C12: a close_position_full call whose direct attempts failed with an
\* automation-disabled failure has made, in this order, the 3 IOC sends and
\* the FOK send, one ensure_autotrading_on call, a retry round of at most 4
\* sends and one ensure_autotrading_off call; and no call makes an
\* ensure_autotrading_off call that no ensure_autotrading_on call precedes.
C12_EscalationOrder ==
    /\ (cl.op = "close" /\ DirectFailedDisabled)
       => \E m \in 0..4 :
            ClCalls(cl.trace) = TiranoFills \o <<"on">> \o SubSeq(TiranoFills, 1, m) \o <<"off">>
    /\ \A i \in DOMAIN cl.trace :
         cl.trace[i].ev = "off" => \E j \in 1..(i - 1) : cl.trace[j].ev = "on"

\* C13: a close_position_full or modify_position_sltp call that called
\* ensure_autotrading_on has called ensure_autotrading_off by the time it
\* returns, whatever the retry gave.
C13_DisableAfterEnable ==
    (cl.ret.returned /\ ClCount("on") >= 1) => ClCount("off") >= 1

\* C14: no two order sends of one close_position_full call carry the same
\* quote: a quote is fetched between any two consecutive sends.
C14_FreshQuotePerSend ==
    cl.op = "close"
    => \A i, j \in DOMAIN cl.trace :
         (i < j /\ cl.trace[i].ev = "send" /\ cl.trace[j].ev = "send")
         => cl.trace[i].price # cl.trace[j].price

\* C15: a close_position_full call makes at most 4 sends before and at most
\* 4 sends after the enable toggle, at most one ensure_autotrading_on and one
\* ensure_autotrading_off call, and nothing after the latter: it makes at
\* most 12 calls in all, has a next step whenever it has not returned, and a
\* retry round that failed is returned as a failure.
C15_CloseBounded ==
    cl.op = "close"
    => /\ ClSends("direct") <= 4
       /\ ClSends("retry") <= 4
       /\ ClCount("send") <= 8
       /\ ClCount("on") <= 1
       /\ ClCount("off") <= 1
       /\ Len(cl.trace) <= 12
       /\ \A i \in DOMAIN cl.trace : cl.trace[i].ev = "off" => i = Len(cl.trace)
       /\ ~cl.ret.returned => cl.pc \in {"price", "send", "on", "off"}
       /\ (cl.pc = "price" => ENABLED get_market_price)
       /\ (cl.pc = "send" => ENABLED order_send)
       /\ (cl.pc = "on" => ENABLED ensure_autotrading_on)
       /\ (cl.pc = "off" => ENABLED ensure_autotrading_off)
       /\ (ClCount("off") = 1 /\ cl.payload.retcode # TRADE_RETCODE_DONE)
          => (cl.ret.returned /\ ~cl.ret.ok)

\* A close that used all 8 sends and both toggles and returned a failure.
C15_Witness ==
    /\ cl.op = "close"
    /\ cl.ret.returned
    /\ ~cl.ret.ok
    /\ ClCount("send") = 8
    /\ ClCount("on") = 1
    /\ ClCount("off") = 1

\* C16: every result close_position_full returns names the path used.
C16_ResultNamesPath ==
    (cl.op = "close" /\ cl.ret.returned) => cl.ret.mode \in {"api", "api+toggle_hotkey"}

\* A round of n sends, of at most limit, that ended with the response last:
\* it stops short of the limit only on a send that was executed.
RoundOk(limit, n, last) == n >= 1 /\ n <= limit /\ (n < limit => Sent(last))
\* The two-path protocol with rounds of at most limit sends, for a call that
\* returned a result: the direct round; the toggles and the retry round
\* exactly when the direct round failed with an automation-disabled failure.
TwoPath(limit) ==
    /\ RoundOk(limit, ClSends("direct"), cl.direct)
    /\ IF DirectFailedDisabled
       THEN /\ ClCount("on") = 1 /\ ClCount("off") = 1
            /\ RoundOk(limit, ClSends("retry"), cl.payload)
            /\ cl.trace[Len(cl.trace)].ev = "off"
            /\ cl.ret.mode = "api+toggle_hotkey"
       ELSE /\ ClCount("on") = 0 /\ ClCount("off") = 0 /\ ClSends("retry") = 0
            /\ cl.ret.mode = "api"

\* C17 as stated: modify_position_sltp and close_position_full run the same
\* protocol, each round being up to 3 attempts and one forced attempt.
C17_SameProtocol ==
    (cl.ret.returned /\ ~cl.ret.error) => TwoPath(4)

\* C17 amended: both operations run the two-path protocol (direct round;
\* only on an automation-disabled failure ensure_autotrading_on, one repeat
\* of the round, ensure_autotrading_off), where a round of
\* close_position_full is up to 3 IOC sends and one FOK send and a round of
\* modify_position_sltp is a single send.
C17_SameSkeletonOwnRounds ==
    (cl.ret.returned /\ ~cl.ret.error) => TwoPath(IF cl.op = "close" THEN 4 ELSE 1)

\* A modification that failed on both paths after two sends in all.
C17_Witness ==
    /\ cl.op = "modify"
    /\ cl.ret.returned
    /\ ~cl.ret.ok
    /\ cl.ret.mode = "api+toggle_hotkey"
    /\ ClCount("send") = 2
    /\ ClCalls(cl.trace) = <<"", "on", "", "off">>

\* ------------------------------------------------ claims: per-trade
\* The step was an immediate per-trade pass.
PtPassed == op \in {"enforce_per_trade_risk", "enforce_per_trade_inline"}

\* C18: an immediate per-trade pass calls close_position_full for exactly
\* the positions of its snapshot that have no stop-loss or whose risk_pct is
\* greater than max_risk_pct, files each of them under closed or failed, and
\* leaves every other position alone.
C18_ImmediateClosesViolations ==
    PtPassed
    => LET bad == {t \in DOMAIN ptSnap.pos :
                     \/ ptSnap.pos[t].sl = None
                     \/ /\ ptSnap.pos[t].risk_pct # None
                        /\ ptSnap.pos[t].risk_pct > DEFAULT_MAX_RISK_PCT}
       IN /\ ptCalls = bad
          /\ ptRep.closed \cup ptRep.failed = bad
          /\ ptRep.closed \cap ptRep.failed = {}

\* A pass over one position without stop-loss, which it closed, and one
\* with a stop-loss at exactly max_risk_pct, which it left alone.
C18_Witness ==
    /\ PtPassed
    /\ \E t, u \in DOMAIN ptSnap.pos :
         /\ ptSnap.pos[t].sl = None
         /\ t \in ptRep.closed
         /\ ptSnap.pos[u].sl # None
         /\ ptSnap.pos[u].risk_pct = DEFAULT_MAX_RISK_PCT
         /\ u \notin ptCalls

C23_FailuresIndependent ==
    /\ op = "enforce_aggregate_risk" =>
         /\ aggCalls = aggSnap.tickets \ aggSt.baseline
         /\ aggRep.closed \cup aggRep.failed = aggCalls
         /\ aggRep.closed \cap aggRep.failed = {}
    /\ op = "enforce_drawdown" /\ ddRep.tripped_now =>
         /\ ddCalls = ddSnap.positions
         /\ ddRep.closed \cup ddRep.failed = ddCalls
         /\ ddRep.closed \cap ddRep.failed = {}
    /\ op = "enforce_per_trade_risk" =>
         /\ ptCalls = {t \in DOMAIN ptSnap.pos :
                         \/ ptSnap.pos[t].sl = None
                         \/ /\ ptSnap.pos[t].risk_pct # None
                            /\ ptSnap.pos[t].risk_pct > DEFAULT_MAX_RISK_PCT}
         /\ ptRep.closed \cup ptRep.failed = ptCalls
         /\ ptRep.closed \cap ptRep.failed = {}

\* An aggregate pass whose first close failed and whose later close
\* succeeded.
C23_Witness ==
    /\ op = "enforce_aggregate_risk"
    /\ \E f \in aggRep.failed, c \in aggRep.closed : f < c
    /\ aggCalls = aggRep.failed \cup aggRep.closed

\* ------------------------------------------------- interactive claims
PtiTicked == op = "enforce_per_trade_interactive_sl"
PtiAdjustCalls == PtiCalled(ptiCalls, "RG ajusta SL")
PtiRestoreCalls == PtiCalled(ptiCalls, "RG override SL original")
PtiViolating(t) ==
    /\ t \in DOMAIN ptiSnap.pos
    /\ \/ ptiSnap.pos[t].sl = None
       \/ /\ ptiSnap.pos[t].risk_pct # None
          /\ ptiSnap.pos[t].risk_pct > DEFAULT_MAX_RISK_PCT
\* The entry of ticket t had status s before a step whose tick still shows t.
PtiHeld(t, s) ==
    /\ t \in DOMAIN ptiState.tickets
    /\ ptiState.tickets[t].status = s
    /\ t \in DOMAIN ptiSnap'.pos

\* C19 as stated: once a ticket's entry has status override or keep, no
\* later interactive tick that still shows the ticket sends an automatic
\* stop-loss modification for it.
C19_DecisionExclusive ==
    [][\A t \in PtTickets :
          PtiHeld(t, "override") \/ PtiHeld(t, "keep")
             => t \notin PtiCalled(ptiCalls', "RG ajusta SL")]_vars

\* C19, amended: once a ticket's entry has status override, no later
\* interactive tick that still shows the ticket sends any stop-loss
\* modification for it; an entry with status keep gives no such protection.
C19_OverrideExclusive ==
    [][\A t \in PtTickets :
          PtiHeld(t, "override")
             => \A i \in DOMAIN ptiCalls' : ptiCalls'[i].ticket # t]_vars

\* A tick found a position in violation whose entry was overridden on an
\* earlier tick, and sent no order.
C19_Witness ==
    /\ PtiTicked
    /\ PtiViolating(1)
    /\ 1 \in DOMAIN ptiState.tickets
    /\ ptiState.tickets[1].status = "override"
    /\ ptiRep.override = {}
    /\ ptiCalls = <<>>

\* The entry of ticket t was pending before a tick that still shows t.
PtiPendingBefore(t) == PtiHeld(t, "pending") /\ op' = "enforce_per_trade_interactive_sl"
PtiHuman12(m) == ~m.from_is_bot /\ m.text \in {"1", "2"}
\* A '1' / '2' written between the prompt of t and its deadline is held by
\* the server.
PtiDecisionBeforeDeadline(t) ==
    \E i \in DOMAIN ptiInbox :
       /\ PtiHuman12(ptiInbox[i])
       /\ ptiInbox[i].date >= ptiState.tickets[t].prompted_at
       /\ ptiInbox[i].date < ptiState.tickets[t].deadline_at
\* A '1' / '2' that a poll for t would accept is held by the server.
PtiDecisionWaiting(t) ==
    \E i \in DOMAIN ptiInbox :
       /\ PtiHuman12(ptiInbox[i])
       /\ ptiInbox[i].date >= ptiState.tickets[t].prompted_at - 1
       /\ \/ ptiState.telegram_offset = None
          \/ ptiInbox[i].update_id >= ptiState.telegram_offset
PtiRestored(t, calls) ==
    \E i \in DOMAIN calls :
       calls[i].ticket = t /\ calls[i].comment = "RG override SL original"

\* C20 as stated: a pending entry for which no '1' / '2' arrived before its
\* deadline has status timeout after the first tick later than the
\* deadline, and that tick sends no order restoring the original stop-loss.
C20_TimeoutAsStated ==
    [][\A t \in PtTickets :
          /\ PtiPendingBefore(t)
          /\ ptiNow' > ptiState.tickets[t].deadline_at
          /\ ~PtiDecisionBeforeDeadline(t)
          => /\ ptiState'.tickets[t].status = "timeout"
             /\ ~PtiRestored(t, ptiCalls')]_vars

\* C20, amended: a pending entry is reported as timed out by a tick exactly
\* when the tick is later than its deadline and applies no decision to it;
\* when no acceptable '1' / '2' is waiting, the tick that times the entry
\* out sends no order restoring the original stop-loss and leaves the
\* recorded adjusted stop-loss alone, and the entry ends the tick with
\* status timeout, or adjust_failed when that same tick reports a failed
\* new adjustment for it.
C20_TimeoutOnFirstLateTick ==
    [][\A t \in PtTickets :
          PtiPendingBefore(t) =>
             /\ ptiNow' <= ptiState.tickets[t].deadline_at => t \notin ptiRep'.timed_out
             /\ /\ ptiNow' > ptiState.tickets[t].deadline_at
                /\ ~PtiDecisionWaiting(t)
                => /\ t \in ptiRep'.timed_out
                   /\ ~PtiRestored(t, ptiCalls')
                   /\ \/ /\ ptiState'.tickets[t].status = "timeout"
                         /\ \/ ptiState'.tickets[t].sl_adjusted =
                                  ptiState.tickets[t].sl_adjusted
                            \/ t \in ptiRep'.adjusted
                      \/ /\ ptiState'.tickets[t].status = "adjust_failed"
                         /\ \E f \in ptiRep'.adjust_failed : f.ticket = t]_vars

\* The claim's example: a position that had no stop-loss, equity 1000,
\* limit 1%: adjusted to 90 and pending, then timed out by a tick later
\* than the deadline that sent no order; the stop-loss is still 90.
C20_Witness ==
    /\ PtiTicked
    /\ 1 \in ptiRep.timed_out
    /\ 1 \in DOMAIN ptiState.tickets
    /\ ptiState.tickets[1].status = "timeout"
    /\ ptiState.tickets[1].sl_original = None
    /\ ptiState.tickets[1].sl_adjusted = 90
    /\ ptiNow > ptiState.tickets[1].deadline_at
    /\ ptiSnap.equity = 1000
    /\ ptiSnap.pos[1].sl = 90
    /\ ptiCalls = <<>>

\* A message the poll for the pending entry of t accepts as a decision.
PtiAcceptable(t, m) ==
    /\ PtiHuman12(m)
    /\ m.date >= ptiState.tickets[t].prompted_at - 1
    /\ \/ ptiState.telegram_offset = None
       \/ m.update_id >= ptiState.telegram_offset
\* The decision waiting for t: the text of the last acceptable message.
PtiLastDecision(t) ==
    LET I == {i \in DOMAIN ptiInbox : PtiAcceptable(t, ptiInbox[i])}
    IN IF I = {} THEN ""
       ELSE ptiInbox[CHOOSE i \in I : \A j \in I : j <= i].text
\* The step's poll for decisions got through: the cursor moved, and no
\* position of the snapshot is one the adjustment loop synchronises the
\* cursor for (lines 453-460: no cursor yet and no prompt sent).
PtiCursorMoved ==
    /\ ptiState'.telegram_offset # ptiState.telegram_offset
    /\ \/ ptiState.telegram_offset # None
       \/ \A u \in DOMAIN ptiSnap'.pos :
             /\ u \in DOMAIN ptiState.tickets
             /\ ptiState.tickets[u].prompt_sent
PtiRestoreCall(t, calls, ok) ==
    \E i \in DOMAIN calls :
       /\ calls[i].ticket = t
       /\ calls[i].comment = "RG override SL original"
       /\ calls[i].sl = ptiState.tickets[t].sl_original
       /\ calls[i].ok = ok

\* C21 as stated: on a pending entry, decision '1' with a recorded original
\* sends the restoring order and leaves the entry override when the order
\* succeeded and pending when it failed; '1' without an original leaves it
\* keep; '2' leaves it keep and the tick sends no order; override comes
\* about in no other way.
C21_DecisionsAsStated ==
    [][\A t \in PtTickets :
          PtiPendingBefore(t) =>
             /\ ptiState'.tickets[t].status = "override"
                  => /\ PtiLastDecision(t) = "1"
                     /\ ptiState.tickets[t].sl_original # None
                     /\ PtiRestoreCall(t, ptiCalls', TRUE)
             /\ PtiCursorMoved /\ PtiLastDecision(t) = "1"
                  /\ ptiState.tickets[t].sl_original # None
                  => \/ /\ PtiRestoreCall(t, ptiCalls', TRUE)
                        /\ ptiState'.tickets[t].status = "override"
                     \/ /\ PtiRestoreCall(t, ptiCalls', FALSE)
                        /\ ptiState'.tickets[t].status = "pending"
             /\ PtiCursorMoved /\ PtiLastDecision(t) = "1"
                  /\ ptiState.tickets[t].sl_original = None
                  => /\ ptiState'.tickets[t].status = "keep"
                     /\ ~PtiRestored(t, ptiCalls')
             /\ PtiCursorMoved /\ PtiLastDecision(t) = "2"
                  => /\ ptiState'.tickets[t].status = "keep"
                     /\ ptiCalls' = <<>>]_vars

\* C21, amended: the same, read at the decision itself.  '1' with a
\* recorded original sends the restoring order with the original stop-loss;
\* the entry is reported and left override exactly when that order
\* succeeded, and after a failed order it is neither override nor keep
\* (pending, or what the timeout and adjustment loops of the same tick make
\* of a pending entry).  '1' without an original and '2' report the entry
\* kept and send no restoring order; the entry is left keep unless the
\* adjustment loop of the same tick reports a failed adjustment for it.
C21_DecisionsAtTheDecision ==
    [][\A t \in PtTickets :
          PtiPendingBefore(t) =>
             /\ ptiState'.tickets[t].status = "override" \/ t \in ptiRep'.override
                  => /\ PtiLastDecision(t) = "1"
                     /\ ptiState.tickets[t].sl_original # None
                     /\ PtiRestoreCall(t, ptiCalls', TRUE)
                     /\ ptiState'.tickets[t].status = "override"
                     /\ t \in ptiRep'.override
             /\ PtiRestored(t, ptiCalls')
                  => /\ PtiLastDecision(t) = "1"
                     /\ ptiState.tickets[t].sl_original # None
                     /\ PtiRestoreCall(t, ptiCalls', TRUE) \/ PtiRestoreCall(t, ptiCalls', FALSE)
             /\ PtiCursorMoved /\ PtiLastDecision(t) = "1"
                  /\ ptiState.tickets[t].sl_original # None
                  => \/ /\ PtiRestoreCall(t, ptiCalls', TRUE)
                        /\ ptiState'.tickets[t].status = "override"
                     \/ /\ PtiRestoreCall(t, ptiCalls', FALSE)
                        /\ ptiState'.tickets[t].status \in {"pending", "timeout", "adjust_failed"}
                        /\ t \notin ptiRep'.override \cup ptiRep'.kept
             /\ PtiCursorMoved
                  /\ \/ PtiLastDecision(t) = "2"
                     \/ PtiLastDecision(t) = "1" /\ ptiState.tickets[t].sl_original = None
                  => /\ t \in ptiRep'.kept
                     /\ ~PtiRestored(t, ptiCalls')
                     /\ \/ ptiState'.tickets[t].status = "keep"
                        \/ /\ ptiState'.tickets[t].status = "adjust_failed"
                           /\ \E f \in ptiRep'.adjust_failed : f.ticket = t
             /\ t \in ptiRep'.kept
                  => \/ PtiLastDecision(t) = "2"
                     \/ PtiLastDecision(t) = "1" /\ ptiState.tickets[t].sl_original = None]_vars

\* A tick restored the recorded original stop-loss with success and left
\* the entry override.
C21_Witness ==
    /\ PtiTicked
    /\ 1 \in ptiRep.override
    /\ 1 \in DOMAIN ptiState.tickets
    /\ ptiState.tickets[1].status = "override"
    /\ ptiState.tickets[1].sl_original = 90
    /\ \E i \in DOMAIN ptiCalls :
          /\ ptiCalls[i].comment = "RG override SL original"
          /\ ptiCalls[i].sl = 90
          /\ ptiCalls[i].ok

\* ----------------------------------------------- claims about the files
\* C24: when enforce_drawdown in the main loop runs concurrently with
\* set_2fa_pin or unlock_with_pin in the CLI, no update is lost: the write
\* of enforce_drawdown does not drop the secret hash the file holds and
\* does not turn awaiting_unlock from false back to true unless that call
\* itself tripped.
C24_NoLostUpdate ==
    [][op' = "enforce_drawdown:_save"
          => /\ ddSt'.twofa = ddSt.twofa
             /\ ~ddSt.awaiting /\ ddSt'.awaiting => rwMain.rep.tripped_now]_vars

\* C25: a reader that runs concurrently with a writer sees the complete
\* previous document or the complete new one, never a partial one: what
\* risk_block_status returns is read off the last complete aggregate
\* document or off the one being written, so existing state is not taken
\* for absent.
C25_ReaderSeesWholeDocument ==
    [][op' = "risk_block_status"
          => \E d \in {aggSt} \cup (IF aggWr.pc = "writing" THEN {aggWr.doc} ELSE {}) :
                /\ aggRead'.risk_block_active = d.blocked
                /\ aggRead'.block_attempts = d.attempts
                /\ aggRead'.baseline_tickets = d.baseline]_vars

\* ------------------------------------ claims: the escalation's trigger
\* C26: a close_position_full or modify_position_sltp call that returned
\* has called ensure_autotrading_on if and only if its direct round failed
\* and the failure it reports shows result code 10027 or 10028, a result
\* comment containing "autotrading disabled", or last-error code 10027 or
\* 10028; a direct failure for another reason returns failure on the direct
\* path without a toggle, and a direct success returns success without one.
C26_EscalationTrigger ==
    cl.ret.returned
    => /\ ClCount("on") >= 1
          <=> /\ ClSends("direct") >= 1
              /\ cl.direct.retcode # 10009
              /\ \/ cl.direct.retcode \in {10027, 10028}
                 \/ cl.direct.comment = "AutoTrading disabled by client"
                 \/ cl.direct.last_error \in {10027, 10028}
       /\ ( /\ ClSends("direct") >= 1
            /\ cl.direct.retcode # 10009
            /\ cl.direct.retcode \notin {10027, 10028}
            /\ cl.direct.comment # "AutoTrading disabled by client"
            /\ cl.direct.last_error \notin {10027, 10028} )
          => /\ ~cl.ret.ok
             /\ cl.ret.mode = "api"
             /\ ClCount("on") + ClCount("off") = 0
       /\ (ClSends("direct") >= 1 /\ cl.direct.retcode = 10009)
          => /\ cl.ret.ok
             /\ cl.ret.mode = "api"
             /\ ClCount("on") + ClCount("off") = 0

\* A modification whose only direct send was rejected with the comment as
\* the single indicator, and which went on to the toggle.
C26_Witness ==
    /\ cl.op = "modify"
    /\ cl.ret.returned
    /\ cl.direct.retcode = 10006
    /\ cl.direct.comment = "AutoTrading disabled by client"
    /\ cl.direct.last_error = 1
    /\ ClCount("on") = 1

\* ------------------------------------- interactive claims, continued
\* The step is a tick that shows ticket t, without an entry before it, in
\* violation: without a stop-loss or with a risk above the limit.
PtiFirstDetected(t) ==
    /\ op' = "enforce_per_trade_interactive_sl"
    /\ t \notin DOMAIN ptiState.tickets
    /\ t \in DOMAIN ptiSnap'.pos
    /\ \/ ptiSnap'.pos[t].sl = None
       \/ /\ ptiSnap'.pos[t].risk_pct # None
          /\ ptiSnap'.pos[t].risk_pct > DEFAULT_MAX_RISK_PCT
\* The tick's adjusting modifications of ticket t that the venue accepted.
PtiApplied(t, calls) ==
    {i \in DOMAIN calls : /\ calls[i].ticket = t
                          /\ calls[i].comment = "RG ajusta SL"
                          /\ calls[i].ok}

\* C27: the tick that first detects a violation of a ticket without an
\* entry ends, when the adjusted stop-loss was applied, with a pending
\* entry holding the original stop-loss (None when there was none), the
\* applied stop-loss and the deadline detection time + decision_timeout,
\* and with the prompt sent for the ticket; it ends with a pending entry
\* only after such a success, and with an adjust_failed entry otherwise.
C27_FirstDetection ==
    [][\A t \in PtTickets :
          PtiFirstDetected(t) =>
             /\ t \in DOMAIN ptiState'.tickets
             /\ PtiApplied(t, ptiCalls') # {}
                  => /\ ptiState'.tickets[t].status = "pending"
                     /\ ptiState'.tickets[t].sl_original = ptiSnap'.pos[t].sl
                     /\ \A i \in PtiApplied(t, ptiCalls') :
                           ptiState'.tickets[t].sl_adjusted = ptiCalls'[i].sl
                     /\ Cardinality(PtiApplied(t, ptiCalls')) = 1
                     /\ ptiState'.tickets[t].deadline_at = ptiNow' + PtiTimeout
                     /\ t \in ptiPrompts'
             /\ ptiState'.tickets[t].status = "pending" => PtiApplied(t, ptiCalls') # {}
             /\ PtiApplied(t, ptiCalls') = {}
                  => /\ ptiState'.tickets[t].status = "adjust_failed"
                     /\ t \notin ptiPrompts']_vars

\* The decision the chat holds for the pending entry of t: the text of the
\* last update the poll would return that a person wrote, that reads "1" or
\* "2" and that is dated no more than slack seconds before the prompt; ""
\* when there is none.
PtiDecisionText(t, slack) ==
    LET I == {i \in DOMAIN ptiInbox :
                /\ ~ptiInbox[i].from_is_bot
                /\ ptiInbox[i].text = "1" \/ ptiInbox[i].text = "2"
                /\ ptiInbox[i].date >= ptiState.tickets[t].prompted_at - slack
                /\ \/ ptiState.telegram_offset = None
                   \/ ptiInbox[i].update_id >= ptiState.telegram_offset}
    IN IF I = {} THEN "" ELSE ptiInbox[CHOOSE i \in I : \A j \in I : j <= i].text
\* What a tick does to the pending entry of t when d is the decision that
\* counts: nothing of a decision without one, and the last one's effect
\* when the poll got through.
PtiCounts(t, d) ==
    /\ d = "" => /\ t \notin ptiRep'.kept \cup ptiRep'.override
                 /\ ~PtiRestored(t, ptiCalls')
                 /\ ptiState'.tickets[t].status \notin {"keep", "override"}
    /\ d = "2" => /\ t \notin ptiRep'.override
                  /\ ~PtiRestored(t, ptiCalls')
    /\ d = "1" /\ ptiState.tickets[t].sl_original # None => t \notin ptiRep'.kept
    /\ PtiCursorMoved /\ d = "2" => t \in ptiRep'.kept
    /\ PtiCursorMoved /\ d = "1" /\ ptiState.tickets[t].sl_original # None
         => PtiRestored(t, ptiCalls')

\* C28 as stated: only a "1" or "2" a person wrote no earlier than the
\* prompt counts for a pending entry: an older one, a bot's message and any
\* other text do not change the entry, and of several decisions polled in
\* one tick the last is applied.
C28_OnlyNewerDecisions ==
    [][\A t \in PtTickets : PtiPendingBefore(t) => PtiCounts(t, PtiDecisionText(t, 0))]_vars

\* C28, amended: the same with one second of slack on whole seconds: a "1"
\* or "2" dated two or more seconds before the entry's prompt time, a bot's
\* message and any other text do not change the entry, and of several
\* decisions polled in one tick the last is applied.
C28_DecisionsWithSlack ==
    [][\A t \in PtTickets : PtiPendingBefore(t) => PtiCounts(t, PtiDecisionText(t, 1))]_vars

\* A tick found "1" and then "2", both written after the prompt of an entry
\* with an original stop-loss, and kept the adjusted one without a
\* restoring order.
C28_Witness ==
    /\ PtiTicked
    /\ 1 \in DOMAIN ptiState.tickets
    /\ ptiState.tickets[1].sl_original # None
    /\ Len(ptiInbox) = 2
    /\ ptiInbox[1].text = "1" /\ ~ptiInbox[1].from_is_bot
    /\ ptiInbox[2].text = "2" /\ ~ptiInbox[2].from_is_bot
    /\ ptiInbox[1].date >= ptiState.tickets[1].prompted_at
    /\ ptiRep.kept = {1}
    /\ ptiCalls = <<>>

\* The tickets a tick's report names, in whatever list.
PtiReported(rep) ==
    rep.adjusted \cup rep.override \cup rep.kept \cup rep.timed_out \cup rep.pending
        \cup {f.ticket : f \in rep.adjust_failed}

\* C29: a tick that still shows a ticket whose entry is override takes no
\* automatic action on it, whatever the position's stop-loss and risk: it
\* sends no modification and no prompt for it, leaves the entry as it was
\* and reports nothing for it, no failed adjustment included; the entry
\* goes only when a tick no longer shows the ticket.
C29_OverridePrecedence ==
    [][\A t \in PtTickets :
          (t \in DOMAIN ptiState.tickets /\ ptiState.tickets[t].status = "override")
             => /\ op' = "enforce_per_trade_interactive_sl" /\ t \in DOMAIN ptiSnap'.pos
                   => /\ t \in DOMAIN ptiState'.tickets
                      /\ ptiState'.tickets[t] = ptiState.tickets[t]
                      /\ \A i \in DOMAIN ptiCalls' : ptiCalls'[i].ticket # t
                      /\ t \notin PtiReported(ptiRep')
                      /\ t \notin ptiPrompts'
                /\ t \notin DOMAIN ptiState'.tickets
                   => op' = "enforce_per_trade_interactive_sl" /\ t \notin DOMAIN ptiSnap'.pos]_vars

\* A tick on an account without equity found the overridden position
\* without a stop-loss and neither sent an order nor reported a failed
\* adjustment.
C29_Witness ==
    /\ PtiTicked
    /\ 1 \in DOMAIN ptiSnap.pos
    /\ ptiSnap.pos[1].sl = None
    /\ ptiSnap.equity = 0
    /\ 1 \in DOMAIN ptiState.tickets
    /\ ptiState.tickets[1].status = "override"
    /\ ptiRep = PtiRepNone
    /\ ptiCalls = <<>>

\* C30: after every interactive-enforcement call the persisted entries are
\* a map from tickets to one entry each whose keys are tickets open in the
\* call's snapshot: an entry of a ticket the snapshot no longer shows is
\* gone after the call, whatever its status was.
C30_EntriesOfOpenTickets ==
    PtiTicked
    => /\ DOMAIN ptiState.tickets \subseteq DOMAIN ptiSnap.pos
       /\ DOMAIN ptiState.tickets \subseteq PtTickets
       /\ \A t \in DOMAIN ptiState.tickets :
             ptiState.tickets[t].status \in {"pending", "override", "keep", "timeout", "adjust_failed"}

\* A tick whose snapshot shows no position left no entry, after earlier
\* ticks had made one.
C30_Witness ==
    /\ PtiTicked
    /\ ptiSnap.pos = <<>>
    /\ ptiState.tickets = <<>>
    /\ ptiState.telegram_offset # None
    /\ ptiNow >= 2

\* ---------------------------------------- claims: the entry's lifecycle
\* The statuses a tick may leave an entry in that had status s before it,
\* the ticket still being open: once(s) for a lifecycle with one change,
\* Refailing(s) when a decided or timed-out entry may still fail.
PtiOnce(s) ==
    IF s = "pending" THEN {"pending", "override", "keep", "timeout", "adjust_failed"} ELSE {s}
PtiRefailing(s) ==
    IF s \in {"keep", "timeout"} THEN {s, "adjust_failed"} ELSE PtiOnce(s)
\* Every entry a tick makes or keeps is in a status the lifecycle allows.
PtiLifecycle(allowed(_)) ==
    \A t \in PtTickets :
       (op' = "enforce_per_trade_interactive_sl" /\ t \in DOMAIN ptiState'.tickets)
          => IF t \in DOMAIN ptiState.tickets
             THEN ptiState'.tickets[t].status \in allowed(ptiState.tickets[t].status)
             ELSE ptiState'.tickets[t].status \in allowed("pending")

\* C31 as stated: an entry is created pending and changes status at most
\* once while its ticket stays open, from pending to override, keep,
\* timeout or adjust_failed; override, keep and timeout stay until the
\* entry is pruned, and no entry returns to pending.
C31_OneTransition == [][PtiLifecycle(PtiOnce)]_vars

\* C31, amended: the same, except that an entry with status keep or timeout
\* becomes adjust_failed on a later tick whose re-adjustment fails; override
\* and adjust_failed stay until the entry is pruned, and no entry returns
\* to pending.
C31_LifecycleWithRefailure == [][PtiLifecycle(PtiRefailing)]_vars

\* A tick re-adjusted the position of an entry that was decided keep on an
\* earlier tick, and the entry is still keep.
C31_Witness ==
    /\ PtiTicked
    /\ 1 \in DOMAIN ptiState.tickets
    /\ ptiState.tickets[1].status = "keep"
    /\ 1 \notin ptiRep.kept
    /\ 1 \in ptiRep.adjusted

\* ------------------------------------- claims: redundant adjustments
\* The adjusting orders a tick sent for ticket t.
PtiAdjusting(t, calls) ==
    {i \in DOMAIN calls : calls[i].ticket = t /\ calls[i].comment = "RG ajusta SL"}

\* C32 as stated: while an entry is pending, a tick on which the
\* position's stop-loss is within half a point of the adjusted stop-loss
\* applied before sends no modification for it, whatever the equity; an
\* adjustment is attempted only when the stop-loss has drifted from the
\* applied one by more than that.
C32_NoRedundantAdjustment ==
    [][\A t \in PtTickets :
          (PtiPendingBefore(t) /\ ptiState.tickets[t].sl_adjusted # None)
             => \/ PtiAdjusting(t, ptiCalls') = {}
                \/ ptiSnap'.pos[t].sl = None
                \/ 2 * Abs(ptiSnap'.pos[t].sl - ptiState.tickets[t].sl_adjusted) > 1]_vars

\* C32, amended: while an entry is pending, a tick sends a modification for
\* it only when the position violates on that tick and its stop-loss
\* differs by more than half a point from the stop-loss the order sets, the
\* target computed from that tick's equity; a stop-loss that equals the
\* one applied before is adjusted again when the equity has moved the
\* target.
C32_NoOrderAtTarget ==
    [][\A t \in PtTickets :
          PtiPendingBefore(t)
             => \A i \in PtiAdjusting(t, ptiCalls') :
                   /\ \/ ptiSnap'.pos[t].sl = None
                      \/ /\ ptiSnap'.pos[t].risk_pct # None
                         /\ ptiSnap'.pos[t].risk_pct > DEFAULT_MAX_RISK_PCT
                   /\ \/ ptiSnap'.pos[t].sl = None
                      \/ 2 * Abs(ptiSnap'.pos[t].sl - ptiCalls'[i].sl) > 1]_vars

\* A tick at equity 500 found the position at the stop-loss 90 and moved it
\* to 95 for an entry that was prompted on an earlier tick and is pending.
C32_Witness ==
    /\ PtiTicked
    /\ ptiSnap.equity = 500
    /\ 1 \in DOMAIN ptiSnap.pos
    /\ ptiSnap.pos[1].sl = 90
    /\ 1 \in DOMAIN ptiState.tickets
    /\ ptiState.tickets[1].status = "pending"
    /\ ptiState.tickets[1].sl_adjusted = 95
    /\ ptiPrompts = {}
    /\ \E i \in DOMAIN ptiCalls : ptiCalls[i].comment = "RG ajusta SL" /\ ptiCalls[i].sl = 95

\* ------------------------------------- claims: insufficient data
\* The step is a tick that shows ticket t in violation, its entry not
\* overridden before the tick nor by a decision taken on it, on an account
\* for which no stop-loss level can be computed:
\* the equity is not positive, or the level at max_risk_pct of the equity
\* is not above zero.
PtiNoTarget(t) ==
    /\ op' = "enforce_per_trade_interactive_sl"
    /\ t \in DOMAIN ptiSnap'.pos
    /\ \/ ptiSnap'.pos[t].sl = None
       \/ /\ ptiSnap'.pos[t].risk_pct # None
          /\ ptiSnap'.pos[t].risk_pct > DEFAULT_MAX_RISK_PCT
    /\ ~(t \in DOMAIN ptiState.tickets /\ ptiState.tickets[t].status = "override")
    /\ t \notin ptiRep'.override
    /\ \/ ptiSnap'.equity <= 0
       \/ 10000 * OpenPrice <= ptiSnap'.equity * DEFAULT_MAX_RISK_PCT
PtiFailureReported(t, rep) == \E f \in rep.adjust_failed : f.ticket = t /\ f.reason # ""

\* C33 as stated: on every tick on which the target stop-loss of a
\* violating, non-overridden position cannot be computed, the report lists
\* the ticket under adjust_failed with a non-empty reason and the entry is
\* adjust_failed.
C33_NeverSilentlySkipped ==
    [][\A t \in PtTickets :
          PtiNoTarget(t)
             => /\ PtiFailureReported(t, ptiRep')
                /\ t \in DOMAIN ptiState'.tickets
                /\ ptiState'.tickets[t].status = "adjust_failed"]_vars

\* C33, amended: on every such tick the entry is adjust_failed and no
\* order is sent for the ticket; the report lists the ticket under
\* adjust_failed with a non-empty reason on the first such tick, when the
\* entry was not adjust_failed already, and not on the ticks after it.
C33_ReportedOnFirstFailure ==
    [][\A t \in PtTickets :
          PtiNoTarget(t)
             => /\ t \in DOMAIN ptiState'.tickets
                /\ ptiState'.tickets[t].status = "adjust_failed"
                /\ PtiAdjusting(t, ptiCalls') = {}
                /\ PtiFailureReported(t, ptiRep')
                     <=> ~(t \in DOMAIN ptiState.tickets
                           /\ ptiState.tickets[t].status = "adjust_failed")]_vars

\* A tick on an account so large that the level falls to zero reported the
\* ticket as failed, with the reason.
C33_Witness ==
    /\ PtiTicked
    /\ ptiSnap.equity = 10000
    /\ 1 \in DOMAIN ptiSnap.pos
    /\ ptiSnap.pos[1].sl = None
    /\ 1 \in DOMAIN ptiState.tickets
    /\ ptiState.tickets[1].status = "adjust_failed"
    /\ ptiRep.adjust_failed = {[ticket |-> 1, reason |-> "SL calculado invalido"]}
    /\ ptiCalls = <<>>

\* ------------------------------------------- claims: the switch restored
\* C34: when close_position_full or modify_position_sltp returns after
\* taking the toggle path, the terminal's AutoTrading switch is on or off
\* as it was when the operation was called, whether or not
\* ensure_autotrading_on and ensure_autotrading_off got to press Ctrl+E.
C34_SwitchRestored ==
    (cl.ret.returned /\ ClCount("on") >= 1) => atSwitch = cl.at_call

\* --------------------------------------- claims: the prompt's entry
\* C35: a tick that sends the option prompt for a ticket leaves the
\* ticket's entry pending, so that a decision or the deadline can act on
\* it, also when the adjustment had failed on earlier ticks.
C35_PromptedIsPending ==
    PtiTicked
    => \A t \in ptiPrompts : /\ t \in DOMAIN ptiState.tickets
                             /\ ptiState.tickets[t].status = "pending"

\* --------------------------------------------- claims: unlock and the peak
\* The drawdown of the step's snapshot from the persisted peak is at or
\* above the limit.
StillOverLimit ==
    /\ ddSt.peak > 0
    /\ (ddSt.peak - ddSnap'.equity) * 100 >= DEFAULT_DD_LIMIT_PCT * ddSt.peak

\* C36: an accepted unlock leaves peak_equity as it was, and the first
\* enforce_drawdown call after it on the tracked account, made with the
\* cooldown expired and the drawdown from that peak still at or above the
\* limit, trips again: it calls the closer for every position of the
\* snapshot, persists cooldown_until = now + cooldown_days and sets
\* awaiting_unlock back to true.
C36_UnlockKeepsPeak ==
    [][ /\ (op' = "unlock_with_pin" /\ pinRep' = "ok") => ddSt'.peak = ddSt.peak
        /\ ( /\ ddSince = "unlocked"
             /\ op' = "enforce_drawdown"
             /\ SameAccount
             /\ ~CooldownActive
             /\ StillOverLimit )
           => ( /\ ddRep'.tripped_now
                /\ ddRep'.peak_equity = ddSt.peak
                /\ ddCalls' = ddSnap'.positions
                /\ ddRep'.closed \cup ddRep'.failed = ddSnap'.positions
                /\ ddSt'.cooldown = now + CooldownDays
                /\ killUntil' = now + CooldownDays
                /\ ddSt'.awaiting ) ]_vars

\* The first call after an unlock tripped again, with positions to close.
C36_Witness ==
    /\ ddSince = "first"
    /\ op = "enforce_drawdown"
    /\ ddRep.tripped_now
    /\ ~ddRep.tracking_initialized
    /\ ddSnap.positions # {}
    /\ ddCalls = ddSnap.positions
    /\ ddSt.awaiting
    /\ ddSt.cooldown = now + CooldownDays

\* The persisted state is that of an account unlocked inside its cooldown:
\* nothing else leaves cooldown_until set with awaiting_unlock false.
UnlockedInCooldown == ddSt.tracking /\ ~ddSt.awaiting /\ ddSt.cooldown # None

C38_ReportAgreesWithState ==
    op = "enforce_drawdown"
    => /\ ddRep.awaiting_unlock = ddSt.awaiting
       /\ ddRep.cooldown_until = ddSt.cooldown

\* ------------------------------------- claims: one decision, one ticket
\* The entries of the snapshot's tickets that are pending when the step's
\* tick begins.
PtiPendingAt ==
    {t \in DOMAIN ptiState.tickets \cap DOMAIN ptiSnap'.pos :
        ptiState.tickets[t].status = "pending"}
\* The tickets the step's tick took a decision for: recorded as kept or
\* overridden, or sent the order that restores the original stop-loss.
PtiDecidedNow ==
    ptiRep'.kept \cup ptiRep'.override \cup PtiCalled(ptiCalls', "RG override SL original")
\* No pending entry was prompted later than t's.
PtiLatest(t) ==
    \A u \in PtiPendingAt :
        ptiState.tickets[u].prompted_at <= ptiState.tickets[t].prompted_at
\* The chat holds a decision of the user the cursor has not passed.
PtiFreshDecision ==
    \E i \in DOMAIN ptiInbox :
        /\ ~ptiInbox[i].from_is_bot
        /\ ptiInbox[i].text \in {"1", "2"}
        /\ \/ ptiState.telegram_offset = None
           \/ ptiInbox[i].update_id >= ptiState.telegram_offset
\* The tick leaves the cursor past every update the chat held.
PtiConsumed ==
    /\ ptiState'.telegram_offset # None
    /\ \A i \in DOMAIN ptiInbox : ptiInbox[i].update_id < ptiState'.telegram_offset
\* The step is a tick that begins with several pending entries and takes a
\* decision; the decision is for one entry, a pending one with the greatest
\* prompt time, it comes from an update the cursor has not passed, the tick
\* leaves the cursor past every update, and every other pending entry
\* satisfies stays(u).
PtiOneDecision(stays(_)) ==
    ( /\ op' = "enforce_per_trade_interactive_sl"
      /\ Cardinality(PtiPendingAt) >= 2
      /\ PtiDecidedNow # {} )
    => /\ \E t \in PtiPendingAt : PtiDecidedNow = {t} /\ PtiLatest(t)
       /\ PtiFreshDecision
       /\ PtiConsumed
       /\ \A u \in PtiPendingAt \ PtiDecidedNow : stays(u)

PtiStaysPending(u) ==
    \/ ptiState'.tickets[u].status = "pending"
    \/ /\ ptiNow' > ptiState.tickets[u].deadline_at
       /\ ptiState'.tickets[u].status = "timeout"

PtiStaysUnlessRefailed(u) ==
    \/ PtiStaysPending(u)
    \/ /\ ptiState'.tickets[u].status = "adjust_failed"
       /\ u \in {e.ticket : e \in ptiRep'.adjust_failed}

\* C39 as stated: when several entries are pending, a polled decision is
\* applied to one entry, the pending one prompted last, every other pending
\* entry stays pending unless its deadline has passed, and the cursor moves
\* past the polled updates.
C39_OneDecisionOneTicket == [][PtiOneDecision(PtiStaysPending)]_vars

\* C39 amended: when several entries are pending, a polled decision is
\* applied to one entry, the pending one prompted last, the cursor moves
\* past the polled updates, and every other pending entry stays pending
\* unless its deadline has passed or the tick's own adjustment of its
\* position fails, which leaves it adjust_failed.
C39_OthersPendingUnlessRefailed == [][PtiOneDecision(PtiStaysUnlessRefailed)]_vars

\* A tick that found both entries pending, prompted one second apart, kept
\* the later one on the user's answer and timed the earlier one out.
C39_Witness ==
    /\ PtiTicked
    /\ ptiRep.kept = {2}
    /\ ptiRep.timed_out = {1}
    /\ ptiState.tickets[1].prompted_at < ptiState.tickets[2].prompted_at
    /\ ptiState.tickets[1].status = "timeout"
    /\ ptiState.tickets[2].status = "keep"
    /\ ptiState.telegram_offset # None

\* ------------------------------------ claims: the accepted exposure
\* C40: an enforce_aggregate_risk call calls the closer for no ticket of the
\* baseline persisted when the call begins, whatever the total risk, the
\* attempts counter and risk_block_active are; the tickets it calls the
\* closer for are the snapshot's tickets outside a non-empty baseline when
\* the total is above the threshold and none otherwise, with the block
\* active as without it.
C40_BaselineNeverClosed ==
    [][ op' = "enforce_aggregate_risk"
        => /\ aggCalls' \cap aggSt.baseline = {}
           /\ (aggRep'.closed \cup aggRep'.failed) \cap aggSt.baseline = {}
           /\ aggCalls' = IF aggSt.baseline # {} /\ aggSnap'.total > DEFAULT_THRESHOLD_PCT
                          THEN aggSnap'.tickets \ aggSt.baseline
                          ELSE {} ]_vars

\* A call made with the block active and the total above the threshold
\* closed a new ticket and left the open baseline ticket alone.
C40_Witness ==
    /\ op = "enforce_aggregate_risk"
    /\ aggRep.risk_block_active_before
    /\ aggSnap.total > DEFAULT_THRESHOLD_PCT
    /\ aggSt.baseline \cap aggSnap.tickets # {}
    /\ aggCalls # {}
    /\ aggCalls \cap aggSt.baseline = {}

====
